---- MODULE Spec2Model ----
(***************************************************************************)
(* BlackRoad kanban hashing: the SHA-256 module (.kanban/hashing/sha256.js)*)
(* and the SHA-Infinity module built on it (chained hashing, state         *)
(* integrity records).                                                     *)
(*                                                                         *)
(* Text is a sequence of one-character strings.  The base digest is        *)
(* symbolic: the digest of a text is that text between the two tokens      *)
(* "sha256(" and ")", so that two digests are equal exactly when their     *)
(* inputs are (a collision-free digest), and a digest is again a text that *)
(* can be hashed or concatenated.                                          *)
(*                                                                         *)
(* A JavaScript value is a pair <<tag, payload>>; the result of a call is  *)
(* a completion <<"return", value>> or <<"throw", message>>.               *)
(***************************************************************************)
EXTENDS Integers, Sequences, FiniteSets, TLC

VARIABLES
    env,         \* the execution environment: which crypto backends are reachable
    now,         \* the clock read by Date.now()
    state,       \* the kanban state object held by the caller
    integrity,   \* the integrity record the caller stored ({} when it has none)
    createCall,  \* the last createStateIntegrity call: arguments and completion
    verifyCall,  \* the verifyStateIntegrity call that just completed, or NoCall
    syncCall,    \* the last shaInfinity call: arguments and completion
    prevCall,    \* the call before it, when it had the same arguments
    task,        \* the shaInfinityAsync invocation: the await it is at, its locals
    serialCall,  \* the stableStringify calls on a pair of values
    toolCall,    \* the last call of a utility built on the engine, or of the primitive
    hashCache,   \* the module's hashCache map, as a set of entries
    config,      \* the exported config object
    walk,        \* a stableStringify call on a heap of objects: its call stack
    sync         \* a run of sync-state.sh: its position, what it did and printed

vars == <<env, now, state, integrity, createCall, verifyCall, syncCall, prevCall,
          task, serialCall, toolCall, hashCache, config, walk, sync>>

(***************************************************************************)
(* JavaScript values                                                       *)
(***************************************************************************)
Null == <<"null", 0>>
Undefined == <<"undefined", 0>>
Fn == <<"function", 0>>
NaN == <<"nan", 0>>
Bool(b) == <<"boolean", b>>
Num(n) == <<"number", n>>
BigInt(n) == <<"bigint", n>>
Str(s) == <<"string", s>>
Arr(xs) == <<"array", xs>>
\* an object: its own enumerable properties <<key, value>> in insertion order
Obj(ps) == <<"object", ps>>

TypeOf(v) ==
    CASE v[1] \in {"null", "array", "object"} -> "object"
      [] v[1] = "nan" -> "number"
      [] OTHER -> v[1]

Return(v) == <<"return", v>>
Throw(msg) == <<"throw", msg>>
IsReturn(c) == c[1] = "return"
IsThrow(c) == c[1] = "throw"

(***************************************************************************)
(* Text                                                                    *)
(***************************************************************************)
\* the characters of the model in UTF-16 code unit order
Alphabet ==
    <<"\"", ",", "-", "0", "1", "2", "3", "4", "5", "6", "7", "8", "9", ":",
      "[", "\\", "]", "a", "b", "c", "d", "e", "f", "h", "i", "l", "n", "p",
      "r", "s", "t", "u", "y", "{", "}">>

CharCode(c) ==
    IF \E i \in 1..Len(Alphabet) : Alphabet[i] = c
    THEN CHOOSE i \in 1..Len(Alphabet) : Alphabet[i] = c
    ELSE Len(Alphabet) + 1

\* a < b for strings, by code units (the default comparison of Array.prototype.sort)
RECURSIVE TextLess(_, _)
TextLess(a, b) ==
    IF b = <<>> THEN FALSE
    ELSE IF a = <<>> THEN TRUE
    ELSE IF CharCode(Head(a)) # CharCode(Head(b))
         THEN CharCode(Head(a)) < CharCode(Head(b))
         ELSE TextLess(Tail(a), Tail(b))

Digit(d) == Alphabet[d + 4]

RECURSIVE Digits(_)
Digits(n) == IF n < 10 THEN <<Digit(n)>> ELSE Digits(n \div 10) \o <<Digit(n % 10)>>

\* Number::toString of an integer
NumberToString(n) == IF n < 0 THEN <<"-">> \o Digits(-n) ELSE Digits(n)

\* ToString, as applied by the + operator to a non-string operand
ToJSString(v) ==
    CASE v[1] = "string" -> v[2]
      [] v[1] = "number" -> NumberToString(v[2])
      [] v[1] = "undefined" -> <<"u", "n", "d", "e", "f", "i", "n", "e", "d">>
      [] v[1] = "null" -> <<"n", "u", "l", "l">>
      [] v[1] = "nan" -> <<"N", "a", "N">>
      [] v[1] = "boolean" ->
            IF v[2] THEN <<"t", "r", "u", "e">> ELSE <<"f", "a", "l", "s", "e">>
      [] OTHER -> <<"?">>

\* a + b where at least one operand is a string
Plus(a, b) == Str(ToJSString(a) \o ToJSString(b))

(***************************************************************************)
(* Canonical serializer (sha256.js)                                        *)
(***************************************************************************)
RECURSIVE Escape(_)
Escape(s) ==
    IF s = <<>> THEN <<>>
    ELSE (IF Head(s) \in {"\"", "\\"} THEN <<"\\", Head(s)>> ELSE <<Head(s)>>)
         \o Escape(Tail(s))

\* JSON.stringify of a string: quoted, with quote and backslash escaped
Quote(s) == <<"\"">> \o Escape(s) \o <<"\"">>

\* JSON.stringify of a value that is null or not an object
JSONstringify(v) ==
    CASE v[1] = "null" -> Return(Str(<<"n", "u", "l", "l">>))
      [] v[1] = "boolean" -> Return(Str(ToJSString(v)))
      [] v[1] = "number" -> Return(Str(NumberToString(v[2])))
      [] v[1] = "nan" -> Return(Str(<<"n", "u", "l", "l">>))
      [] v[1] = "string" -> Return(Str(Quote(v[2])))
      [] v[1] = "bigint" -> Throw("TypeError: Do not know how to serialize a BigInt")
      [] OTHER -> Return(Undefined)

\* Array.prototype.join: an undefined or null element joins as the empty string
RECURSIVE Join(_, _)
Join(xs, sep) ==
    IF xs = <<>> THEN <<>>
    ELSE LET h == IF Head(xs)[1] \in {"undefined", "null"} THEN <<>>
                  ELSE ToJSString(Head(xs))
         IN IF Len(xs) = 1 THEN h ELSE h \o sep \o Join(Tail(xs), sep)

\* the first throwing completion of a sequence of completions, if any
FirstThrow(cs) ==
    IF \E i \in 1..Len(cs) : IsThrow(cs[i])
    THEN cs[CHOOSE i \in 1..Len(cs) :
              IsThrow(cs[i]) /\ \A j \in 1..(i - 1) : ~IsThrow(cs[j])]
    ELSE Return(Undefined)

RECURSIVE Insert(_, _)
Insert(k, sorted) ==
    IF sorted = <<>> THEN <<k>>
    ELSE IF TextLess(k, Head(sorted)) THEN <<k>> \o sorted
    ELSE <<Head(sorted)>> \o Insert(k, Tail(sorted))

\* Array.prototype.sort with the default comparison
RECURSIVE Sort(_)
Sort(ks) == IF ks = <<>> THEN <<>> ELSE Insert(Head(ks), Sort(Tail(ks)))

\* Object.keys
ObjectKeys(obj) == [i \in 1..Len(obj[2]) |-> obj[2][i][1]]

\* obj[key]
Get(obj, key) ==
    IF \E i \in 1..Len(obj[2]) : obj[2][i][1] = key
    THEN obj[2][CHOOSE i \in 1..Len(obj[2]) : obj[2][i][1] = key][2]
    ELSE Undefined

RECURSIVE stableStringify(_)
stableStringify(obj) ==
    IF obj[1] = "null" \/ TypeOf(obj) # "object" THEN JSONstringify(obj)
    ELSE IF obj[1] = "array" THEN
        LET parts == [i \in 1..Len(obj[2]) |-> stableStringify(obj[2][i])]
        IN IF IsThrow(FirstThrow(parts)) THEN FirstThrow(parts)
           ELSE Return(Str(<<"[">>
                    \o Join([i \in 1..Len(parts) |-> parts[i][2]], <<",">>)
                    \o <<"]">>))
    ELSE
        LET keys == Sort(ObjectKeys(obj))
            values == [i \in 1..Len(keys) |-> stableStringify(Get(obj, keys[i]))]
            pairs == [i \in 1..Len(keys) |->
                        Plus(Plus(Str(Quote(keys[i])), Str(<<":">>)), values[i][2])]
        IN IF IsThrow(FirstThrow(values)) THEN FirstThrow(values)
           ELSE Return(Str(<<"{">> \o Join(pairs, <<",">>) \o <<"}">>))

(***************************************************************************)
(* Base digest primitive (sha256.js)                                       *)
(***************************************************************************)
\* the hex digest of a text: collision-free, and itself a text
Digest(text) == <<"sha256(">> \o text \o <<")">>

\* sha256 taking a digest from whichever backend there is
sha256_AnyBackend(data) ==
    IF env.crypto \/ env.subtle
    THEN IF data[1] = "string" THEN Return(Str(Digest(data[2])))
         ELSE Throw("TypeError [ERR_INVALID_ARG_TYPE]")
    ELSE Throw("No crypto implementation available")

\* sha256(data): Node's crypto when require gave one; Hash.update accepts a
\* string (or a buffer) and throws a TypeError on anything else
sha256(data) ==
    IF env.crypto
    THEN IF data[1] = "string" THEN Return(Str(Digest(data[2])))
         ELSE Throw("TypeError [ERR_INVALID_ARG_TYPE]")
    ELSE IF env.subtle THEN Throw("Use sha256Async for browser environments")
    ELSE Throw("No crypto implementation available")

\* TextEncoder.encode(input = "")
Encode(data) == IF data[1] = "undefined" THEN <<>> ELSE ToJSString(data)

\* sha256Async(data): WebCrypto when the window has it, else the sync version
sha256Async(data) ==
    IF env.subtle THEN Return(Str(Digest(Encode(data)))) ELSE sha256(data)

(***************************************************************************)
(* Chained hash engine (sha-infinity)                                      *)
(***************************************************************************)
DEFAULT_CONFIG ==
    [defaultDepth |-> 7, maxDepth |-> 256, minDepth |-> 1,
     parallelThreshold |-> 1000, cacheEnabled |-> TRUE,
     salt |-> Str(<<"b", "l", "a", "c", "k", "r", "o", "a", "d", "-",
                    "i", "n", "f", "i", "n", "i", "t", "y">>)]

\* the bound declared for hashCache, the Map of intermediate hashes
MAX_CACHE_SIZE == 10000

\* a parameter or destructured property with a default: the default applies
\* exactly when the value is undefined
Default(v, d) == IF v = Undefined THEN d ELSE v

NoOptions == [useSalt |-> Undefined, salt |-> Undefined, includeDepthInHash |-> Undefined]

\* the loop with its bound taken from the default depth, not from the argument
RECURSIVE HashLoop_DefaultDepth(_, _, _)
HashLoop_DefaultDepth(currentHash, i, depth) ==
    IF IsThrow(currentHash) \/ i >= DEFAULT_CONFIG.defaultDepth THEN currentHash
    ELSE HashLoop_DefaultDepth(sha256(currentHash[2]), i + 1, depth)

\* the loop with its test written i <= depth: the iterations i .. depth
RECURSIVE HashLoop_Inclusive(_, _, _)
HashLoop_Inclusive(currentHash, i, depth) ==
    IF IsThrow(currentHash) \/ i > depth THEN currentHash
    ELSE IF i = depth THEN sha256(currentHash[2])
    ELSE LET mid == (i + depth) \div 2
         IN HashLoop_Inclusive(HashLoop_Inclusive(currentHash, i, mid), mid + 1, depth)

\* for (let i = 1; i < depth; i++) currentHash = sha256(currentHash)
\* The iterations i .. depth-1 run in order: the first half of the range, then
\* the second half on its result (the recursion is on the range, so that its
\* nesting is logarithmic in depth).
RECURSIVE HashLoop(_, _, _)
HashLoop(currentHash, i, depth) ==
    IF IsThrow(currentHash) \/ i >= depth THEN currentHash
    ELSE IF i + 1 = depth THEN sha256(currentHash[2])
    ELSE LET mid == (i + depth) \div 2
         IN HashLoop(HashLoop(currentHash, i, mid), mid, depth)

\* shaInfinity with the upper bound tested by >=: the largest depth is refused
shaInfinity_MaxExcluded(data, depthArg, options) ==
    LET depth == Default(depthArg, Num(DEFAULT_CONFIG.defaultDepth))
        useSalt == Default(options.useSalt, Bool(TRUE))
        salt == Default(options.salt, DEFAULT_CONFIG.salt)
        includeDepthInHash == Default(options.includeDepthInHash, Bool(TRUE))
        seed == IF useSalt[2] THEN sha256(Plus(Plus(salt, Str(<<":">>)), data))
                ELSE sha256(data)
        looped == HashLoop(seed, 1, depth[2])
    IN IF depth[2] < DEFAULT_CONFIG.minDepth
       THEN Throw("Depth must be at least 1")
       ELSE IF depth[2] >= DEFAULT_CONFIG.maxDepth
       THEN Throw("Depth cannot exceed 256")
       ELSE IF IsThrow(looped) THEN looped
       ELSE IF includeDepthInHash[2]
       THEN sha256(Plus(Plus(looped[2], Str(<<":", "d", "e", "p", "t", "h", ":">>)), depth))
       ELSE looped

\* shaInfinity with the seed digest taken before the depth is checked
shaInfinity_SeedFirst(data, depthArg, options) ==
    LET depth == Default(depthArg, Num(DEFAULT_CONFIG.defaultDepth))
        useSalt == Default(options.useSalt, Bool(TRUE))
        salt == Default(options.salt, DEFAULT_CONFIG.salt)
        includeDepthInHash == Default(options.includeDepthInHash, Bool(TRUE))
        seed == IF useSalt[2] THEN sha256(Plus(Plus(salt, Str(<<":">>)), data))
                ELSE sha256(data)
        looped == HashLoop(seed, 1, depth[2])
    IN IF IsThrow(seed) THEN seed
       ELSE IF depth[2] < DEFAULT_CONFIG.minDepth
       THEN Throw("Depth must be at least 1")
       ELSE IF depth[2] > DEFAULT_CONFIG.maxDepth
       THEN Throw("Depth cannot exceed 256")
       ELSE IF IsThrow(looped) THEN looped
       ELSE IF includeDepthInHash[2]
       THEN sha256(Plus(Plus(looped[2], Str(<<":", "d", "e", "p", "t", "h", ":">>)), depth))
       ELSE looped

\* shaInfinity taking its defaults and its bounds from the exported config
shaInfinity_ReadsConfig(data, depthArg, options) ==
    LET depth == Default(depthArg, Num(config.defaultDepth))
        useSalt == Default(options.useSalt, Bool(TRUE))
        salt == Default(options.salt, config.salt)
        includeDepthInHash == Default(options.includeDepthInHash, Bool(TRUE))
        seed == IF useSalt[2] THEN sha256(Plus(Plus(salt, Str(<<":">>)), data))
                ELSE sha256(data)
        looped == HashLoop(seed, 1, depth[2])
    IN IF depth[2] < config.minDepth
       THEN Throw("Depth must be at least 1")
       ELSE IF depth[2] > config.maxDepth
       THEN Throw("Depth cannot exceed 256")
       ELSE IF IsThrow(looped) THEN looped
       ELSE IF includeDepthInHash[2]
       THEN sha256(Plus(Plus(looped[2], Str(<<":", "d", "e", "p", "t", "h", ":">>)), depth))
       ELSE looped

\* shaInfinity(data, depth = DEFAULT_CONFIG.defaultDepth, options = {})
shaInfinity(data, depthArg, options) ==
    LET depth == Default(depthArg, Num(DEFAULT_CONFIG.defaultDepth))
        useSalt == Default(options.useSalt, Bool(TRUE))
        salt == Default(options.salt, DEFAULT_CONFIG.salt)
        includeDepthInHash == Default(options.includeDepthInHash, Bool(TRUE))
        seed == IF useSalt[2] THEN sha256(Plus(Plus(salt, Str(<<":">>)), data))
                ELSE sha256(data)
        looped == HashLoop(seed, 1, depth[2])
    IN IF depth[2] < DEFAULT_CONFIG.minDepth
       THEN Throw("Depth must be at least 1")
       ELSE IF depth[2] > DEFAULT_CONFIG.maxDepth
       THEN Throw("Depth cannot exceed 256")
       ELSE IF IsThrow(looped) THEN looped
       ELSE IF includeDepthInHash[2]
       THEN sha256(Plus(Plus(looped[2], Str(<<":", "d", "e", "p", "t", "h", ":">>)), depth))
       ELSE looped

(***************************************************************************)
(* State integrity service (sha-infinity)                                  *)
(***************************************************************************)
\* an object literal {} read as an integrity record: every field undefined
EmptyRecord ==
    [sha256 |-> Undefined, sha_infinity |-> Undefined, chain_depth |-> Undefined,
     timestamp |-> Undefined, version |-> Undefined, algorithm |-> Undefined]

CurrentVersion == Str(<<"1", ".", "0", ".", "0">>)
CurrentAlgorithm ==
    Str(<<"s", "h", "a", "-", "i", "n", "f", "i", "n", "i", "t", "y", "-", "v", "1">>)

\* createStateIntegrity(state, depth = DEFAULT_CONFIG.defaultDepth)
createStateIntegrity(st, depthArg) ==
    LET depth == Default(depthArg, Num(DEFAULT_CONFIG.defaultDepth))
        timestamp == Num(now)
        stateJson == stableStringify(st)
        plain == sha256(stateJson[2])
        chained == shaInfinity(stateJson[2], depth, NoOptions)
    IN IF IsThrow(stateJson) THEN stateJson
       ELSE IF IsThrow(plain) THEN plain
       ELSE IF IsThrow(chained) THEN chained
       ELSE Return([sha256 |-> plain[2], sha_infinity |-> chained[2],
                    chain_depth |-> depth, timestamp |-> timestamp,
                    version |-> CurrentVersion, algorithm |-> CurrentAlgorithm])

\* verifyStateIntegrity written without the record's depth: the chained digest
\* is recomputed at the default depth
verifyStateIntegrity_DefaultDepth(st, rec) ==
    LET stateJson == stableStringify(st)
        plain == sha256(stateJson[2])
        chained == shaInfinity(stateJson[2], Undefined, NoOptions)
        sha256Valid == plain[2] = rec.sha256
        infinityValid == chained[2] = rec.sha_infinity
    IN IF IsThrow(stateJson) THEN stateJson
       ELSE IF IsThrow(plain) THEN plain
       ELSE IF IsThrow(chained) THEN chained
       ELSE Return([valid |-> sha256Valid /\ infinityValid,
                    sha256_valid |-> sha256Valid,
                    sha_infinity_valid |-> infinityValid,
                    checked_at |-> Num(now),
                    original_timestamp |-> rec.timestamp])

\* verifyStateIntegrity(state, integrity)
verifyStateIntegrity(st, rec) ==
    LET stateJson == stableStringify(st)
        plain == sha256(stateJson[2])
        chained == shaInfinity(stateJson[2], rec.chain_depth, NoOptions)
        sha256Valid == plain[2] = rec.sha256
        infinityValid == chained[2] = rec.sha_infinity
    IN IF IsThrow(stateJson) THEN stateJson
       ELSE IF IsThrow(plain) THEN plain
       ELSE IF IsThrow(chained) THEN chained
       ELSE Return([valid |-> sha256Valid /\ infinityValid,
                    sha256_valid |-> sha256Valid,
                    sha_infinity_valid |-> infinityValid,
                    checked_at |-> Num(now),
                    original_timestamp |-> rec.timestamp])

(***************************************************************************)
(* Base digest applications made by a call                                 *)
(***************************************************************************)
\* shaInfinity: the number of sha256 calls it makes before it returns or
\* throws: none when the depth check throws, one when the seed digest throws,
\* else the seed, the depth - 1 iterations and the depth binding if asked for
shaInfinityDigests(data, depthArg, options) ==
    LET depth == Default(depthArg, Num(DEFAULT_CONFIG.defaultDepth))
        useSalt == Default(options.useSalt, Bool(TRUE))
        salt == Default(options.salt, DEFAULT_CONFIG.salt)
        includeDepthInHash == Default(options.includeDepthInHash, Bool(TRUE))
        seed == IF useSalt[2] THEN sha256(Plus(Plus(salt, Str(<<":">>)), data))
                ELSE sha256(data)
    IN IF depth[2] < DEFAULT_CONFIG.minDepth \/ depth[2] > DEFAULT_CONFIG.maxDepth
       THEN 0
       ELSE IF IsThrow(seed) THEN 1
       ELSE 1 + (depth[2] - 1) + (IF includeDepthInHash[2] THEN 1 ELSE 0)

\* createStateIntegrity: the record's fields are evaluated in the order
\* written, the plain digest first, the chained digest after it
createStateIntegrityDigests(st, depthArg) ==
    LET depth == Default(depthArg, Num(DEFAULT_CONFIG.defaultDepth))
        stateJson == stableStringify(st)
        plain == sha256(stateJson[2])
    IN IF IsThrow(stateJson) THEN 0
       ELSE IF IsThrow(plain) THEN 1
       ELSE 1 + shaInfinityDigests(stateJson[2], depth, NoOptions)

(***************************************************************************)
(* Chain link (sha-infinity)                                               *)
(***************************************************************************)
\* infinityChain with the timestamp left out of the link
infinityChain_NoTimestamp(previousHash, data, depthArg) ==
    LET depth == Default(depthArg, Num(DEFAULT_CONFIG.defaultDepth))
        combined == Plus(Plus(previousHash, Str(<<":">>)), data)
    IN shaInfinity(combined, depth, NoOptions)

\* infinityChain(previousHash, data, depth = DEFAULT_CONFIG.defaultDepth)
infinityChain(previousHash, data, depthArg) ==
    LET depth == Default(depthArg, Num(DEFAULT_CONFIG.defaultDepth))
        combined == Plus(Plus(Plus(Plus(previousHash, Str(<<":">>)), data),
                              Str(<<":">>)), Num(now))
    IN shaInfinity(combined, depth, NoOptions)

infinityChainDigests(previousHash, data, depthArg) ==
    LET depth == Default(depthArg, Num(DEFAULT_CONFIG.defaultDepth))
        combined == Plus(Plus(Plus(Plus(previousHash, Str(<<":">>)), data),
                              Str(<<":">>)), Num(now))
    IN shaInfinityDigests(combined, depth, NoOptions)

(***************************************************************************)
(* Merkle aggregator (sha-infinity)                                        *)
(***************************************************************************)
\* ToBoolean of the operand of ||
Truthy(v) ==
    CASE v[1] \in {"undefined", "null", "nan"} -> FALSE
      [] v[1] = "boolean" -> v[2]
      [] v[1] = "number" -> v[2] # 0
      [] v[1] = "string" -> v[2] # <<>>
      [] OTHER -> TRUE

\* hashes[i] of a JavaScript array, i counted from 0
At(hashes, i) == IF i < Len(hashes) THEN hashes[i + 1] ELSE Undefined

NoDepthBinding == [NoOptions EXCEPT !.includeDepthInHash = Bool(FALSE)]

\* the partner of the pair starting at i, the first element repeated for an
\* unpaired last one
PairRight_First(hashes, i) ==
    IF Truthy(At(hashes, i + 1)) THEN At(hashes, i + 1) ELSE At(hashes, 0)

\* const right = hashes[i + 1] || left
PairRight(hashes, i) ==
    IF Truthy(At(hashes, i + 1)) THEN At(hashes, i + 1) ELSE At(hashes, i)

\* the pair combined with its smaller element first
CombinePair_Sorted(left, right, depth) ==
    IF TextLess(ToJSString(right), ToJSString(left))
    THEN shaInfinity(Plus(right, left), depth, NoDepthBinding)
    ELSE shaInfinity(Plus(left, right), depth, NoDepthBinding)

\* the pair combined from its left element alone
CombinePair_LeftOnly(left, right, depth) ==
    shaInfinity(Plus(left, left), depth, NoDepthBinding)

\* shaInfinity(left + right, depth, { includeDepthInHash: false })
CombinePair(left, right, depth) ==
    shaInfinity(Plus(left, right), depth, NoDepthBinding)

\* the for loop: paired, in the order pushed
PairLevel(hashes, depth) ==
    [k \in 1..((Len(hashes) + 1) \div 2) |->
        CombinePair(At(hashes, 2 * (k - 1)), PairRight(hashes, 2 * (k - 1)), depth)]

\* infinityMerkleRoot without the return of a single element: it is paired
\* with itself until the level's digest is taken for the root
RECURSIVE infinityMerkleRoot_HashSingle(_, _)
infinityMerkleRoot_HashSingle(hashes, depthArg) ==
    LET depth == Default(depthArg, Num(DEFAULT_CONFIG.defaultDepth))
        paired == PairLevel(hashes, depth)
    IN IF Len(hashes) = 0
       THEN shaInfinity(Str(<<"e", "m", "p", "t", "y">>), depth, NoOptions)
       ELSE IF IsThrow(FirstThrow(paired)) THEN FirstThrow(paired)
       ELSE IF Len(paired) = 1 THEN paired[1]
       ELSE infinityMerkleRoot_HashSingle([k \in 1..Len(paired) |-> paired[k][2]], depth)

\* infinityMerkleRoot(hashes, depth = DEFAULT_CONFIG.defaultDepth)
RECURSIVE infinityMerkleRoot(_, _)
infinityMerkleRoot(hashes, depthArg) ==
    LET depth == Default(depthArg, Num(DEFAULT_CONFIG.defaultDepth))
        paired == PairLevel(hashes, depth)
    IN IF Len(hashes) = 0
       THEN shaInfinity(Str(<<"e", "m", "p", "t", "y">>), depth, NoOptions)
       ELSE IF Len(hashes) = 1 THEN Return(hashes[1])
       ELSE IF IsThrow(FirstThrow(paired)) THEN FirstThrow(paired)
       ELSE infinityMerkleRoot([k \in 1..Len(paired) |-> paired[k][2]], depth)

\* the sha256 calls of one level's loop: every pair's, up to and with the
\* first pair whose shaInfinity throws
RECURSIVE PairLevelDigests(_, _, _)
PairLevelDigests(hashes, depth, k) ==
    IF k > (Len(hashes) + 1) \div 2 THEN 0
    ELSE LET left == At(hashes, 2 * (k - 1))
             right == PairRight(hashes, 2 * (k - 1))
             n == shaInfinityDigests(Plus(left, right), depth, NoDepthBinding)
         IN IF IsThrow(CombinePair(left, right, depth)) THEN n
            ELSE n + PairLevelDigests(hashes, depth, k + 1)

RECURSIVE infinityMerkleRootDigests(_, _)
infinityMerkleRootDigests(hashes, depthArg) ==
    LET depth == Default(depthArg, Num(DEFAULT_CONFIG.defaultDepth))
        paired == PairLevel(hashes, depth)
    IN IF Len(hashes) = 0
       THEN shaInfinityDigests(Str(<<"e", "m", "p", "t", "y">>), depth, NoOptions)
       ELSE IF Len(hashes) = 1 THEN 0
       ELSE IF IsThrow(FirstThrow(paired)) THEN PairLevelDigests(hashes, depth, 1)
       ELSE PairLevelDigests(hashes, depth, 1)
            + infinityMerkleRootDigests([k \in 1..Len(paired) |-> paired[k][2]], depth)

(***************************************************************************)
(* Proof-of-work search (sha-infinity)                                     *)
(***************************************************************************)
\* while (... && nonce < 10000000)
PowBudget == 10000000

\* difficulty = 4
DefaultDifficulty == 4

\* The digest being symbolic, its hex characters are left open: lead gives,
\* for the nonces it names, the number of '0' characters the attempt's digest
\* starts with; the digest of any other nonce starts with another character.
LeadingZeros(lead, nonce) == IF nonce \in DOMAIN lead THEN lead[nonce] ELSE 0

\* hash.startsWith('0'.repeat(difficulty))
StartsWithPrefix(lead, nonce, difficulty) ==
    LeadingZeros(lead, nonce) >= difficulty

\* the result with verified set without looking at the digest
PowReturn_Verified(hash, nonce, starts) ==
    Return([hash |-> hash, nonce |-> nonce - 1, attempts |-> nonce, verified |-> TRUE])

\* return { hash, nonce: nonce - 1, attempts: nonce, verified: hash.startsWith(prefix) }
PowReturn(hash, nonce, starts) ==
    Return([hash |-> hash, nonce |-> nonce - 1, attempts |-> nonce, verified |-> starts])

\* the nonce the loop tests next after failing all nonces below n: a failed
\* test means the prefix is not empty, so every nonce lead does not name fails
\* it too, and the loop goes on to the next nonce lead names, or to the last
\* nonce of the budget
NextTested(lead, n) ==
    LET tested == {m \in DOMAIN lead \cup {PowBudget - 1} : m >= n}
    IN CHOOSE m \in tested : \A k \in tested : m <= k

\* the loop with its budget test written nonce <= 10000000
RECURSIVE PowLoop_OneMore(_, _, _, _, _)
PowLoop_OneMore(data, difficulty, depth, lead, nonce) ==
    LET hash == shaInfinity(Plus(Plus(data, Str(<<":">>)), Num(nonce)), depth, NoDepthBinding)
        starts == StartsWithPrefix(lead, nonce, difficulty)
    IN IF IsThrow(hash) THEN hash
       ELSE IF ~starts /\ nonce + 1 <= PowBudget
       THEN PowLoop_OneMore(data, difficulty, depth, lead,
                            IF nonce + 1 >= PowBudget THEN nonce + 1
                            ELSE NextTested(lead, nonce + 1))
       ELSE PowReturn(hash[2], nonce + 1, starts)

\* do { hash = shaInfinity(data + ':' + nonce, depth, {includeDepthInHash: false});
\*      nonce++ } while (!hash.startsWith(prefix) && nonce < 10000000)
\* entered with the nonce about to be tried
RECURSIVE PowLoop(_, _, _, _, _)
PowLoop(data, difficulty, depth, lead, nonce) ==
    LET hash == shaInfinity(Plus(Plus(data, Str(<<":">>)), Num(nonce)), depth, NoDepthBinding)
        starts == StartsWithPrefix(lead, nonce, difficulty)
    IN IF IsThrow(hash) THEN hash
       ELSE IF ~starts /\ nonce + 1 < PowBudget
       THEN PowLoop(data, difficulty, depth, lead, NextTested(lead, nonce + 1))
       ELSE PowReturn(hash[2], nonce + 1, starts)

\* proofOfWork with the search begun at nonce 1
proofOfWork_FromOne(data, difficultyArg, depthArg, lead) ==
    LET difficulty == Default(difficultyArg, Num(DefaultDifficulty))
        depth == Default(depthArg, Num(DEFAULT_CONFIG.defaultDepth))
    IN IF difficulty[2] < 0 THEN Throw("RangeError: Invalid count value")
       ELSE PowLoop(data, difficulty[2], depth, lead, 1)

\* proofOfWork(data, difficulty = 4, depth = DEFAULT_CONFIG.defaultDepth)
\* '0'.repeat throws a RangeError on a negative count
proofOfWork(data, difficultyArg, depthArg, lead) ==
    LET difficulty == Default(difficultyArg, Num(DefaultDifficulty))
        depth == Default(depthArg, Num(DEFAULT_CONFIG.defaultDepth))
    IN IF difficulty[2] < 0 THEN Throw("RangeError: Invalid count value")
       ELSE PowLoop(data, difficulty[2], depth, lead, 0)

\* the sha256 calls of proofOfWork: those of every attempt made
proofOfWorkDigests(data, difficultyArg, depthArg, lead) ==
    LET difficulty == Default(difficultyArg, Num(DefaultDifficulty))
        depth == Default(depthArg, Num(DEFAULT_CONFIG.defaultDepth))
        first == Plus(Plus(data, Str(<<":">>)), Num(0))
        result == proofOfWork(data, difficultyArg, depthArg, lead)
    IN IF difficulty[2] < 0 THEN 0
       ELSE IF IsThrow(result) THEN shaInfinityDigests(first, depth, NoDepthBinding)
       ELSE result[2].attempts * shaInfinityDigests(first, depth, NoDepthBinding)

(***************************************************************************)
(* Inputs                                                                  *)
(***************************************************************************)
MaxNow == 1

Envs == [crypto : BOOLEAN, subtle : BOOLEAN]

KeyA == <<"a">>
KeyB == <<"b">>
One == Num(1)
OneText == Str(<<"1">>)

\* kanban states: flat and nested objects that differ in a key, a value, a
\* value's type or only the insertion order, and states holding values that
\* JSON cannot represent
StateValues ==
    {Obj(<<>>),
     Obj(<< <<KeyA, One>> >>),
     Obj(<< <<KeyA, OneText>> >>),
     Obj(<< <<KeyB, One>> >>),
     Obj(<< <<KeyA, One>>, <<KeyB, OneText>> >>),
     Obj(<< <<KeyB, OneText>>, <<KeyA, One>> >>)}
    \cup {Obj(<< <<KeyA, v>> >>) :
            v \in {Null, NaN, Arr(<<>>), Arr(<<Undefined>>),
                   Arr(<<One, OneText>>), Arr(<<OneText, One>>),
                   Obj(<< <<KeyA, One>>, <<KeyB, OneText>> >>),
                   Obj(<< <<KeyB, OneText>>, <<KeyA, One>> >>)}}
    \cup {Undefined}

\* depths handed to createStateIntegrity: none, and both sides of each bound
CreateDepths ==
    {Undefined, Num(DEFAULT_CONFIG.minDepth - 1), Num(DEFAULT_CONFIG.minDepth),
     Num(DEFAULT_CONFIG.defaultDepth + 1), Num(DEFAULT_CONFIG.maxDepth),
     Num(DEFAULT_CONFIG.maxDepth + 1)}

\* chain_depth values a record may come back with
RecordDepths ==
    {Undefined, Num(DEFAULT_CONFIG.minDepth - 1), Num(DEFAULT_CONFIG.defaultDepth),
     Num(DEFAULT_CONFIG.maxDepth + 1)}

OtherAlgorithm ==
    Str(<<"s", "h", "a", "-", "i", "n", "f", "i", "n", "i", "t", "y", "-", "v", "2">>)

NoCreate == [done |-> FALSE, state |-> Undefined, depth |-> Undefined,
             completion |-> Throw("not called")]
NoVerify == [done |-> FALSE, state |-> Undefined, integrity |-> EmptyRecord,
             completion |-> Throw("not called")]
NoSync == [done |-> FALSE, data |-> Undefined, depth |-> Undefined,
           options |-> NoOptions, completion |-> Throw("not called")]
IdleTask == [pc |-> "idle", data |-> Undefined, depth |-> Undefined,
             useSalt |-> Undefined, salt |-> Undefined,
             includeDepthInHash |-> Undefined, currentHash |-> Undefined, i |-> 0,
             completion |-> Throw("not settled")]
NoSerial == [done |-> FALSE, a |-> Undefined, b |-> Undefined,
             outA |-> Throw("not called"), outB |-> Throw("not called")]

\* no stableStringify call on a heap yet
NoWalk == [pc |-> "idle", heap |-> <<>>, stack |-> <<>>, completion |-> Throw("not called")]

\* sync-state.sh not started
NoRun == [pc |-> "none", target |-> "all", stateFile |-> FALSE, backupOk |-> FALSE,
          node |-> FALSE, credentials |-> FALSE, uploaded |-> FALSE, todo |-> <<>>,
          returned |-> <<>>, stamped |-> <<>>, completed |-> FALSE, status |-> -1]

\* no utility called yet
NoTool == [done |-> FALSE, op |-> "none", data |-> Undefined, hashes |-> <<>>,
           previousHash |-> Undefined, difficulty |-> Undefined, depth |-> Undefined,
           lead |-> [n \in {} |-> 0], time |-> 0, completion |-> Throw("not called"), digests |-> 0]

(***************************************************************************)
(* The integrity service and its caller                                    *)
(***************************************************************************)
Init ==
    /\ env \in Envs
    /\ now = 0
    /\ state \in StateValues
    /\ integrity = EmptyRecord
    /\ createCall = NoCreate
    /\ verifyCall = NoVerify
    /\ syncCall = NoSync
    /\ prevCall = NoSync
    /\ task = IdleTask
    /\ serialCall = NoSerial
    /\ toolCall = NoTool
    /\ hashCache = {}
    /\ config = DEFAULT_CONFIG
    /\ walk = NoWalk
    /\ sync = NoRun

\* the caller is between two calls
Ready == ~verifyCall.done

\* Date.now() advances
Tick ==
    /\ Ready
    /\ now < MaxNow
    /\ now' = now + 1
    /\ UNCHANGED <<env, state, integrity, createCall, verifyCall, syncCall, prevCall,
                   task, serialCall, toolCall,
                   hashCache, config, walk, sync>>

\* the caller records the integrity of the state it holds
Create(depthArg) ==
    LET c == createStateIntegrity(state, depthArg)
    IN /\ Ready
       /\ createCall' = [done |-> TRUE, state |-> state, depth |-> depthArg,
                         completion |-> c]
       /\ integrity' = IF IsReturn(c) THEN c[2] ELSE EmptyRecord
       /\ UNCHANGED <<env, now, state, verifyCall, syncCall, prevCall, task, serialCall, toolCall,
                   hashCache, config, walk, sync>>

\* the state changes between the record's creation and its verification
MutateState(st) ==
    /\ Ready
    /\ st # state
    /\ state' = st
    /\ UNCHANGED <<env, now, integrity, createCall, verifyCall, syncCall, prevCall,
                   task, serialCall, toolCall,
                   hashCache, config, walk, sync>>

\* what the store may hand back for a record: the record itself, the record
\* with another chain_depth or none, the record naming another algorithm
RecordVariants(r) ==
    {r}
    \cup {[r EXCEPT !.chain_depth = d] : d \in RecordDepths}
    \cup {[r EXCEPT !.algorithm = OtherAlgorithm]}

\* a verification that writes its check time into the stored record
Verify_StampsRecord(rec) ==
    /\ Ready
    /\ verifyCall' = [done |-> TRUE, state |-> state, integrity |-> rec,
                      completion |-> verifyStateIntegrity(state, rec)]
    /\ integrity' = [integrity EXCEPT !.timestamp = Num(now + 1)]
    /\ UNCHANGED <<env, now, state, createCall, syncCall, prevCall, task,
                   serialCall, toolCall,
                   hashCache, config, walk, sync>>

\* the caller verifies the state it holds against a record read back
Verify(rec) ==
    /\ Ready
    /\ verifyCall' = [done |-> TRUE, state |-> state, integrity |-> rec,
                      completion |-> verifyStateIntegrity(state, rec)]
    /\ UNCHANGED <<env, now, state, integrity, createCall, syncCall, prevCall, task,
                   serialCall, toolCall,
                   hashCache, config, walk, sync>>

\* the caller takes the verification result and goes on
Resume ==
    /\ verifyCall.done
    /\ verifyCall' = NoVerify
    /\ UNCHANGED <<env, now, state, integrity, createCall, syncCall, prevCall, task,
                   serialCall, toolCall,
                   hashCache, config, walk, sync>>

Next ==
    \/ Tick
    \/ \E d \in CreateDepths : Create(d)
    \/ \E st \in StateValues : MutateState(st)
    \/ \E rec \in RecordVariants(integrity) : Verify(rec)
    \/ Resume

Spec == Init /\ [][Next]_vars

(***************************************************************************)
(* Properties of the integrity service                                     *)
(***************************************************************************)
\* a value JSON represents: null, a boolean, a finite number, a string, a
\* sequence or a string-keyed mapping of such values
RECURSIVE IsJSON(_)
IsJSON(v) ==
    CASE v[1] \in {"null", "boolean", "number", "string"} -> TRUE
      [] v[1] = "array" -> \A i \in 1..Len(v[2]) : IsJSON(v[2][i])
      [] v[1] = "object" -> \A i \in 1..Len(v[2]) : IsJSON(v[2][i][2])
      [] OTHER -> FALSE

\* the same content: equal up to the insertion order of mapping keys
RECURSIVE SameContent(_, _)
SameContent(a, b) ==
    IF a[1] # b[1] THEN FALSE
    ELSE IF a[1] = "array"
    THEN /\ Len(a[2]) = Len(b[2])
         /\ \A i \in 1..Len(a[2]) : SameContent(a[2][i], b[2][i])
    ELSE IF a[1] = "object"
    THEN /\ {a[2][i][1] : i \in 1..Len(a[2])} = {b[2][i][1] : i \in 1..Len(b[2])}
         /\ \A i \in 1..Len(a[2]) : SameContent(a[2][i][2], Get(b, a[2][i][1]))
    ELSE a = b

\* the verification that just completed checked the record exactly as the
\* last createStateIntegrity call returned it
VerifiedCreatedRecord ==
    /\ verifyCall.done
    /\ createCall.done
    /\ IsReturn(createCall.completion)
    /\ verifyCall.integrity = createCall.completion[2]

\* C1: integrity round trip.  A record returned by createStateIntegrity(state,
\* depth), at the default or any other accepted depth, verifies against the
\* state it was made from (in any key insertion order): verifyStateIntegrity
\* returns valid, sha256_valid and sha_infinity_valid all true.
C1_RoundTrip ==
    (VerifiedCreatedRecord /\ SameContent(verifyCall.state, createCall.state))
    => /\ IsReturn(verifyCall.completion)
       /\ verifyCall.completion[2].valid
       /\ verifyCall.completion[2].sha256_valid
       /\ verifyCall.completion[2].sha_infinity_valid

\* a round trip at the largest depth, on a nested state whose keys were
\* inserted in another order than when the record was made
C1_Witness ==
    /\ VerifiedCreatedRecord
    /\ createCall.depth = Num(DEFAULT_CONFIG.maxDepth)
    /\ createCall.state = Obj(<< <<KeyA, Obj(<< <<KeyA, One>>, <<KeyB, OneText>> >>)>> >>)
    /\ verifyCall.state = Obj(<< <<KeyA, Obj(<< <<KeyB, OneText>>, <<KeyA, One>> >>)>> >>)
    /\ IsReturn(verifyCall.completion)
    /\ verifyCall.completion[2].valid

\* C2: tamper detection.  When the state verified differs in content (a value,
\* a key or the structure) from the state the record was made from,
\* verifyStateIntegrity returns valid = false.
C2_TamperDetected ==
    (/\ VerifiedCreatedRecord
     /\ ~SameContent(verifyCall.state, createCall.state)
     /\ IsReturn(verifyCall.completion))
    => ~verifyCall.completion[2].valid

\* C3: the chained digest is recomputed at the depth the record stores and at
\* no substituted depth: a chained digest is found valid only for a record
\* that stores a depth.
C3_DepthFromRecord ==
    (/\ verifyCall.done
     /\ IsReturn(verifyCall.completion)
     /\ verifyCall.completion[2].sha_infinity_valid)
    => verifyCall.integrity.chain_depth # Undefined

\* C4: verifyStateIntegrity never raises.  With a crypto backend reachable and
\* a state JSON represents, every record, whatever its chain_depth, gets a
\* result whose valid field is a boolean.
C4_VerifyNeverRaises ==
    (verifyCall.done /\ env.crypto /\ IsJSON(verifyCall.state))
    => /\ IsReturn(verifyCall.completion)
       /\ verifyCall.completion[2].valid \in BOOLEAN

\* C5: a record whose algorithm is not 'sha-infinity-v1' is rejected or
\* flagged: when it is found valid, the result differs from the result for
\* the same record naming the current algorithm.
C5_UnknownAlgorithmFlagged ==
    (/\ verifyCall.done
     /\ verifyCall.integrity.algorithm # CurrentAlgorithm
     /\ IsReturn(verifyCall.completion)
     /\ verifyCall.completion[2].valid)
    => verifyCall.completion
         # verifyStateIntegrity(verifyCall.state,
               [verifyCall.integrity EXCEPT !.algorithm = CurrentAlgorithm])

(***************************************************************************)
(* The chained hash engine and its caller: an input is hashed in the       *)
(* synchronous mode, then in the suspending mode                           *)
(***************************************************************************)
\* depths on both sides of each bound of the accepted range, the first three
\* accepted ones, the default and its successor, and none
DepthArgs ==
    {Undefined,
     Num(DEFAULT_CONFIG.minDepth - 1), Num(DEFAULT_CONFIG.minDepth),
     Num(DEFAULT_CONFIG.minDepth + 1), Num(DEFAULT_CONFIG.minDepth + 2),
     Num(DEFAULT_CONFIG.defaultDepth), Num(DEFAULT_CONFIG.defaultDepth + 1),
     Num(DEFAULT_CONFIG.maxDepth), Num(DEFAULT_CONFIG.maxDepth + 1)}

DataArgs == {Str(<<"a">>), Str(<<"a", ":", "b">>)}

OptionArgs ==
    {NoOptions,
     [NoOptions EXCEPT !.useSalt = Bool(FALSE)],
     [NoOptions EXCEPT !.includeDepthInHash = Bool(FALSE)],
     [NoOptions EXCEPT !.useSalt = Bool(FALSE), !.includeDepthInHash = Bool(FALSE)],
     [NoOptions EXCEPT !.salt = Str(<<"a">>)]}

InitChain ==
    /\ env \in Envs
    /\ now = 0
    /\ state = Undefined
    /\ integrity = EmptyRecord
    /\ createCall = NoCreate
    /\ verifyCall = NoVerify
    /\ syncCall = NoSync
    /\ prevCall = NoSync
    /\ task = IdleTask
    /\ serialCall = NoSerial
    /\ toolCall = NoTool
    /\ hashCache = {}
    /\ config = DEFAULT_CONFIG
    /\ walk = NoWalk
    /\ sync = NoRun

Running == task.pc \in {"seed", "loop", "bind"}

TickChain ==
    /\ now < MaxNow
    /\ now' = now + 1
    /\ UNCHANGED <<env, state, integrity, createCall, verifyCall, syncCall, prevCall,
                   task, serialCall, toolCall,
                   hashCache, config, walk, sync>>

\* a call that keeps the digest of each data in hashCache and answers a later
\* call for the same data from it, whatever depth and options that call has
CallShaInfinity_Cached(data, depthArg, options) ==
    LET hits == {e \in hashCache : e[1] = data}
        computed == shaInfinity(data, depthArg, options)
        c == IF hits # {} THEN Return((CHOOSE e \in hits : TRUE)[2]) ELSE computed
        call == [done |-> TRUE, data |-> data, depth |-> depthArg, options |-> options,
                 completion |-> c]
        repeated == /\ syncCall.done
                    /\ syncCall.data = data
                    /\ syncCall.depth = depthArg
                    /\ syncCall.options = options
    IN /\ ~Running
       /\ syncCall' = call
       /\ prevCall' = IF repeated THEN syncCall ELSE NoSync
       /\ task' = IdleTask
       /\ hashCache' = IF hits = {} /\ IsReturn(computed)
                       THEN hashCache \cup {<<data, computed[2]>>}
                       ELSE hashCache
       /\ UNCHANGED <<env, now, state, integrity, createCall, verifyCall, serialCall, toolCall,
                   config, walk, sync>>

\* the caller hashes an input in the synchronous mode
CallShaInfinity(data, depthArg, options) ==
    LET call == [done |-> TRUE, data |-> data, depth |-> depthArg, options |-> options,
                 completion |-> shaInfinity(data, depthArg, options)]
        repeated == /\ syncCall.done
                    /\ syncCall.data = data
                    /\ syncCall.depth = depthArg
                    /\ syncCall.options = options
    IN /\ ~Running
       /\ syncCall' = call
       /\ prevCall' = IF repeated THEN syncCall ELSE NoSync
       /\ task' = IdleTask
       /\ UNCHANGED <<env, now, state, integrity, createCall, verifyCall, serialCall, toolCall,
                   hashCache, config, walk, sync>>

\* shaInfinityAsync up to its first await, called with the arguments of the
\* synchronous call: the defaults, the depth check, the seed digest requested
AsyncStart ==
    LET depth == Default(syncCall.depth, Num(DEFAULT_CONFIG.defaultDepth))
        locals == [IdleTask EXCEPT
                     !.data = syncCall.data,
                     !.depth = depth,
                     !.useSalt = Default(syncCall.options.useSalt, Bool(TRUE)),
                     !.salt = Default(syncCall.options.salt, DEFAULT_CONFIG.salt),
                     !.includeDepthInHash =
                         Default(syncCall.options.includeDepthInHash, Bool(TRUE))]
    IN /\ syncCall.done
       /\ ~Running
       /\ task' = IF depth[2] < DEFAULT_CONFIG.minDepth \/ depth[2] > DEFAULT_CONFIG.maxDepth
                  THEN [locals EXCEPT !.pc = "settled",
                          !.completion = Throw("Depth must be between 1 and 256")]
                  ELSE [locals EXCEPT !.pc = "seed"]
       /\ UNCHANGED <<env, now, state, integrity, createCall, verifyCall, syncCall,
                      prevCall, serialCall, toolCall,
                   hashCache, config, walk, sync>>

\* AfterDigest with the loop test written i <= depth: one digest too many
AfterDigest_OneMore(c, i) ==
    IF IsThrow(c) THEN [task EXCEPT !.pc = "settled", !.completion = c]
    ELSE IF i <= task.depth[2]
    THEN [task EXCEPT !.pc = "loop", !.currentHash = c[2], !.i = i]
    ELSE IF task.includeDepthInHash[2]
    THEN [task EXCEPT !.pc = "bind", !.currentHash = c[2], !.i = i]
    ELSE [task EXCEPT !.pc = "settled", !.currentHash = c[2], !.i = i,
                      !.completion = Return(c[2])]

\* the function going on after an awaited digest c arrived as the i-th of the
\* chain: rejected if the digest failed; else the loop test, the next
\* iteration's digest requested, or the depth binding's, or the return
AfterDigest(c, i) ==
    IF IsThrow(c) THEN [task EXCEPT !.pc = "settled", !.completion = c]
    ELSE IF i < task.depth[2]
    THEN [task EXCEPT !.pc = "loop", !.currentHash = c[2], !.i = i]
    ELSE IF task.includeDepthInHash[2]
    THEN [task EXCEPT !.pc = "bind", !.currentHash = c[2], !.i = i]
    ELSE [task EXCEPT !.pc = "settled", !.currentHash = c[2], !.i = i,
                      !.completion = Return(c[2])]

\* await sha256Async(salt + ':' + data), or await sha256Async(data)
AsyncSeed ==
    /\ task.pc = "seed"
    /\ task' = AfterDigest(
                 IF task.useSalt[2]
                 THEN sha256Async(Plus(Plus(task.salt, Str(<<":">>)), task.data))
                 ELSE sha256Async(task.data), 1)
    /\ UNCHANGED <<env, now, state, integrity, createCall, verifyCall, syncCall,
                   prevCall, serialCall, toolCall,
                   hashCache, config, walk, sync>>

\* currentHash = await sha256Async(currentHash); i++
AsyncIterate ==
    /\ task.pc = "loop"
    /\ task' = AfterDigest(sha256Async(task.currentHash), task.i + 1)
    /\ UNCHANGED <<env, now, state, integrity, createCall, verifyCall, syncCall,
                   prevCall, serialCall, toolCall,
                   hashCache, config, walk, sync>>

\* currentHash = await sha256Async(currentHash + ':depth:' + depth); return
AsyncBind ==
    /\ task.pc = "bind"
    /\ task' = [task EXCEPT !.pc = "settled",
                  !.completion = sha256Async(
                      Plus(Plus(task.currentHash,
                                Str(<<":", "d", "e", "p", "t", "h", ":">>)), task.depth))]
    /\ UNCHANGED <<env, now, state, integrity, createCall, verifyCall, syncCall,
                   prevCall, serialCall, toolCall,
                   hashCache, config, walk, sync>>

NextChain ==
    \/ TickChain
    \/ \E data \in DataArgs, d \in DepthArgs, o \in OptionArgs : CallShaInfinity(data, d, o)
    \/ AsyncStart
    \/ AsyncSeed
    \/ AsyncIterate
    \/ AsyncBind

SpecChain == InitChain /\ [][NextChain]_vars

(***************************************************************************)
(* Properties of the chained hash engine                                   *)
(***************************************************************************)
\* the depth a call runs at: the argument, or the default for none
DepthOf(depthArg) == Default(depthArg, Num(DEFAULT_CONFIG.defaultDepth))[2]

SyncDepthErrors == {Throw("Depth must be at least 1"), Throw("Depth cannot exceed 256")}
AsyncDepthError == Throw("Depth must be between 1 and 256")

IsDigest(c) == IsReturn(c) /\ c[2][1] = "string"

\* C6: depth bounds.  shaInfinity and shaInfinityAsync fail with a depth error
\* for every depth below 1 and every depth above 256, and for every depth in
\* 1..256, both ends included, they raise no depth error and return a digest
\* (given a backend the mode can reach).
C6_DepthBounds ==
    /\ syncCall.done =>
         LET d == DepthOf(syncCall.depth)
         IN /\ d < 1 => syncCall.completion = Throw("Depth must be at least 1")
            /\ d > 256 => syncCall.completion = Throw("Depth cannot exceed 256")
            /\ d \in 1..256 =>
                 /\ syncCall.completion \notin SyncDepthErrors
                 /\ env.crypto => IsDigest(syncCall.completion)
    /\ task.pc = "settled" =>
         LET d == task.depth[2]
         IN /\ (d < 1 \/ d > 256) => task.completion = AsyncDepthError
            /\ d \in 1..256 =>
                 /\ task.completion # AsyncDepthError
                 /\ (env.crypto \/ env.subtle) => IsDigest(task.completion)

\* both modes returned a digest at the largest depth, 256
C6_Witness ==
    /\ syncCall.done
    /\ syncCall.depth = Num(256)
    /\ IsDigest(syncCall.completion)
    /\ task.pc = "settled"
    /\ IsDigest(task.completion)

\* C7: mode equivalence and determinism.  Called with the same arguments,
\* shaInfinityAsync rejects a depth exactly when shaInfinity does; where the
\* synchronous backend is reachable it resolves to exactly the digest
\* shaInfinity returned (and fails when shaInfinity failed); and a repeated
\* shaInfinity call with the same arguments returns what the first returned.
C7_ModeEquivalence ==
    /\ task.pc = "settled" =>
         /\ (task.completion = AsyncDepthError) <=> (syncCall.completion \in SyncDepthErrors)
         /\ env.crypto =>
              IF IsReturn(syncCall.completion)
              THEN task.completion = syncCall.completion
              ELSE IsThrow(task.completion)
    /\ prevCall.done => prevCall.completion = syncCall.completion

\* the suspending mode went through the whole loop at depth 256, with the
\* depth bound into the digest, and resolved to the synchronous digest
C7_Witness ==
    /\ task.pc = "settled"
    /\ task.depth = Num(256)
    /\ task.includeDepthInHash = Bool(TRUE)
    /\ task.i = 256
    /\ IsDigest(task.completion)
    /\ task.completion = syncCall.completion

\* C8: depth sensitivity.  The digest shaInfinity returned differs from the
\* digest it returns for the same data and options at any other accepted
\* depth (the base digest being collision-free).
C8_DepthSensitivity ==
    (syncCall.done /\ IsReturn(syncCall.completion)) =>
        \A d \in DepthArgs :
            (DepthOf(d) \in 1..256 /\ DepthOf(d) # DepthOf(syncCall.depth))
            => shaInfinity(syncCall.data, d, syncCall.options) # syncCall.completion

\* a digest at depth 7 with the depth not bound into it: only the number of
\* digest applications sets it apart from the digest at depth 8
C8_Witness ==
    /\ syncCall.done
    /\ syncCall.depth = Num(7)
    /\ syncCall.options.includeDepthInHash = Bool(FALSE)
    /\ IsDigest(syncCall.completion)

(***************************************************************************)
(* The canonical serializer and its caller                                 *)
(***************************************************************************)
\* the longest sequence handed to the serializer
MaxLen == 2

SerialLeaves == {Null, Undefined, Fn, NaN, One, OneText}

\* sequences of at most MaxLen leaves
SerialArrays ==
    {Arr(xs) : xs \in UNION {[1..n -> SerialLeaves] : n \in 0..MaxLen}}

\* mappings over the keys a and b, in either insertion order
SerialObjects ==
    {Obj(<<>>)}
    \cup {Obj(<< <<k, v>> >>) : k \in {KeyA, KeyB}, v \in SerialLeaves}
    \cup {Obj(<< <<KeyA, v>>, <<KeyB, w>> >>) : v \in SerialLeaves, w \in SerialLeaves}
    \cup {Obj(<< <<KeyB, w>>, <<KeyA, v>> >>) : v \in SerialLeaves, w \in SerialLeaves}

\* a sequence or a mapping one level down, inside a sequence or a mapping
SerialInner ==
    {Arr(<<v, w>>) : v \in {One, Fn}, w \in {One, Fn}}
    \cup {Obj(<< <<KeyA, v>>, <<KeyB, w>> >>) : v \in {One, Fn}, w \in {One, Fn}}
    \cup {Obj(<< <<KeyB, w>>, <<KeyA, v>> >>) : v \in {One, Fn}, w \in {One, Fn}}

SerialValues ==
    SerialLeaves \cup SerialArrays \cup SerialObjects
    \cup {Arr(<<x>>) : x \in SerialInner}
    \cup {Obj(<< <<KeyA, x>> >>) : x \in SerialInner}

InitSerial ==
    /\ env \in Envs
    /\ now = 0
    /\ state = Undefined
    /\ integrity = EmptyRecord
    /\ createCall = NoCreate
    /\ verifyCall = NoVerify
    /\ syncCall = NoSync
    /\ prevCall = NoSync
    /\ task = IdleTask
    /\ serialCall = NoSerial
    /\ toolCall = NoTool
    /\ hashCache = {}
    /\ config = DEFAULT_CONFIG
    /\ walk = NoWalk
    /\ sync = NoRun

\* the caller serializes two values, one after the other
CallStableStringify ==
    /\ ~serialCall.done
    /\ \E a \in SerialValues, b \in SerialValues :
           serialCall' = [done |-> TRUE, a |-> a, b |-> b,
                          outA |-> stableStringify(a), outB |-> stableStringify(b)]
    /\ UNCHANGED <<env, now, state, integrity, createCall, verifyCall, syncCall,
                   prevCall, task, toolCall,
                   hashCache, config, walk, sync>>

\* the caller takes the two results and goes on
ResumeSerial ==
    /\ serialCall.done
    /\ serialCall' = NoSerial
    /\ UNCHANGED <<env, now, state, integrity, createCall, verifyCall, syncCall,
                   prevCall, task, toolCall,
                   hashCache, config, walk, sync>>

NextSerial ==
    \/ CallStableStringify
    \/ ResumeSerial

SpecSerial == InitSerial /\ [][NextSerial]_vars

(***************************************************************************)
(* Properties of the canonical serializer                                  *)
(***************************************************************************)
\* two sequences holding the same elements, in a different order
Reordered(a, b) ==
    /\ a[1] = "array" /\ b[1] = "array"
    /\ Len(a[2]) = Len(b[2])
    /\ \E p \in Permutations(1..Len(a[2])) :
           \A i \in 1..Len(a[2]) : SameContent(a[2][i], b[2][p[i]])
    /\ ~SameContent(a, b)

\* a function or an undefined value: the value itself, a sequence element or
\* a mapping value, at any level
RECURSIVE HasNonSerializable(_)
HasNonSerializable(v) ==
    CASE v[1] \in {"undefined", "function"} -> TRUE
      [] v[1] = "array" -> \E i \in 1..Len(v[2]) : HasNonSerializable(v[2][i])
      [] v[1] = "object" -> \E i \in 1..Len(v[2]) : HasNonSerializable(v[2][i][2])
      [] OTHER -> FALSE

\* C9: canonical order-independence.  stableStringify returns the same string
\* for two values that differ only in the insertion order of mapping keys, at
\* any nesting level, and different strings for two sequences holding the
\* same elements in a different order.
C9_OrderIndependence ==
    serialCall.done =>
        /\ SameContent(serialCall.a, serialCall.b) => serialCall.outA = serialCall.outB
        /\ Reordered(serialCall.a, serialCall.b) => serialCall.outA # serialCall.outB

\* C10: serialization failure.  For an input holding a function or an
\* undefined value (itself, as a sequence element or as a mapping value),
\* stableStringify fails with an error and returns nothing.
C10_SerializationFails ==
    serialCall.done =>
        /\ HasNonSerializable(serialCall.a) => IsThrow(serialCall.outA)
        /\ HasNonSerializable(serialCall.b) => IsThrow(serialCall.outB)

(***************************************************************************)
(* The utilities built on the engine, the primitive, and their caller      *)
(***************************************************************************)
\* the longest sequence of leaves handed to infinityMerkleRoot
MaxLeaves == 4

\* leaves: the digests of four different texts
LeafDigests == {Str(Digest(<<c>>)) : c \in {"1", "2", "3", "4"}}

LeafSeqs == UNION {[1..n -> LeafDigests] : n \in 0..MaxLeaves}

\* depths: none, the least, and the first outside the range on either side
ToolDepths ==
    {Undefined, Num(DEFAULT_CONFIG.minDepth - 1), Num(DEFAULT_CONFIG.minDepth),
     Num(DEFAULT_CONFIG.maxDepth + 1)}

\* the nonces whose digest may start with '0': the first two and the last of
\* the budget; and the numbers of '0' characters such a digest starts with
PowNonces == {0, 1, PowBudget - 1}
LeadCounts == {0, 1, 2, DefaultDifficulty + 1}
Leads == [PowNonces -> LeadCounts]

Difficulties == {Undefined, Num(0), Num(1), Num(2)}

ToolData == {Str(<<"a">>), Str(<<"a", ":", "1">>), Str(<<>>)}

PreviousHashes == {Str(Digest(<<"1">>)), Str(Digest(<<"2">>))}

ToolStates == {Obj(<<>>), Obj(<< <<KeyA, One>> >>)}

InitTools ==
    /\ env \in Envs
    /\ now = 0
    /\ state = Undefined
    /\ integrity = EmptyRecord
    /\ createCall = NoCreate
    /\ verifyCall = NoVerify
    /\ syncCall = NoSync
    /\ prevCall = NoSync
    /\ task = IdleTask
    /\ serialCall = NoSerial
    /\ toolCall = NoTool
    /\ hashCache = {}
    /\ config = DEFAULT_CONFIG
    /\ walk = NoWalk
    /\ sync = NoRun

UnchangedButTool ==
    UNCHANGED <<env, now, state, integrity, createCall, verifyCall, syncCall, prevCall,
                task, serialCall,
                   hashCache, config, walk, sync>>

\* Date.now() advances between two calls
TickTools ==
    /\ ~toolCall.done
    /\ now < MaxNow
    /\ now' = now + 1
    /\ UNCHANGED <<env, state, integrity, createCall, verifyCall, syncCall, prevCall,
                   task, serialCall, toolCall,
                   hashCache, config, walk, sync>>

CallSha256 ==
    /\ ~toolCall.done
    /\ \E data \in ToolData :
         toolCall' = [NoTool EXCEPT !.done = TRUE, !.op = "sha256", !.data = data,
                        !.time = now, !.completion = sha256(data),
                        !.digests = 1]
    /\ UnchangedButTool

CallSha256Async ==
    /\ ~toolCall.done
    /\ \E data \in ToolData :
         toolCall' = [NoTool EXCEPT !.done = TRUE, !.op = "sha256Async", !.data = data,
                        !.time = now, !.completion = sha256Async(data),
                        !.digests = 1]
    /\ UnchangedButTool

CallInfinityChain ==
    /\ ~toolCall.done
    /\ \E previousHash \in PreviousHashes, data \in ToolData, depth \in ToolDepths :
         toolCall' = [NoTool EXCEPT !.done = TRUE, !.op = "infinityChain",
                        !.previousHash = previousHash, !.data = data, !.depth = depth,
                        !.time = now,
                        !.completion = infinityChain(previousHash, data, depth),
                        !.digests = infinityChainDigests(previousHash, data, depth)]
    /\ UnchangedButTool

CallInfinityMerkleRoot ==
    /\ ~toolCall.done
    /\ \E hashes \in LeafSeqs, depth \in ToolDepths :
         toolCall' = [NoTool EXCEPT !.done = TRUE, !.op = "infinityMerkleRoot",
                        !.hashes = hashes, !.depth = depth, !.time = now,
                        !.completion = infinityMerkleRoot(hashes, depth),
                        !.digests = infinityMerkleRootDigests(hashes, depth)]
    /\ UnchangedButTool

CallProofOfWork ==
    /\ ~toolCall.done
    /\ \E data \in ToolData, difficulty \in Difficulties, depth \in ToolDepths,
          lead \in Leads :
         toolCall' = [NoTool EXCEPT !.done = TRUE, !.op = "proofOfWork",
                        !.data = data, !.difficulty = difficulty, !.depth = depth,
                        !.lead = lead, !.time = now,
                        !.completion = proofOfWork(data, difficulty, depth, lead),
                        !.digests = proofOfWorkDigests(data, difficulty, depth, lead)]
    /\ UnchangedButTool

CallCreateStateIntegrity ==
    /\ ~toolCall.done
    /\ \E st \in ToolStates, depth \in ToolDepths :
         /\ toolCall' = [NoTool EXCEPT !.done = TRUE, !.op = "createStateIntegrity",
                           !.depth = depth, !.time = now,
                           !.completion = createStateIntegrity(st, depth),
                           !.digests = createStateIntegrityDigests(st, depth)]
         /\ state' = st
    /\ UNCHANGED <<env, now, integrity, createCall, verifyCall, syncCall, prevCall,
                   task, serialCall,
                   hashCache, config, walk, sync>>

\* the caller takes the result and goes on
ResumeTools ==
    /\ toolCall.done
    /\ toolCall' = NoTool
    /\ UnchangedButTool

NextTools ==
    \/ TickTools
    \/ CallSha256
    \/ CallSha256Async
    \/ CallInfinityChain
    \/ CallInfinityMerkleRoot
    \/ CallProofOfWork
    \/ CallCreateStateIntegrity
    \/ ResumeTools

SpecTools == InitTools /\ [][NextTools]_vars

(***************************************************************************)
(* Reference construction of the chained digest                            *)
(***************************************************************************)
\* H^n(x) written out: n digests opened, x, n digests closed
RefIterated(x, n) ==
    [i \in 1..n |-> "sha256("] \o x \o [i \in 1..n |-> ")"]

\* F(H^(d-1)(seed)): seed = H(salt ':' data) or H(data), F binds the depth or
\* is the identity
RefShaInfinity(data, d, useSalt, salt, includeDepthInHash) ==
    LET chain == RefIterated(IF useSalt THEN salt \o <<":">> \o data ELSE data, d)
    IN IF includeDepthInHash
       THEN RefIterated(chain \o <<":", "d", "e", "p", "t", "h", ":">> \o Digits(d), 1)
       ELSE chain

(***************************************************************************)
(* Properties of the Merkle aggregator                                     *)
(***************************************************************************)
MerkleCalled == toolCall.done /\ toolCall.op = "infinityMerkleRoot"

\* C11: Merkle base cases.  infinityMerkleRoot([]) is what shaInfinity('empty',
\* depth) is (with a backend and an accepted depth: the digest of the text
\* 'empty', salted, chained depth times and bound to the depth), and
\* infinityMerkleRoot([h]) returns h itself and applies no digest.
C11_MerkleBaseCases ==
    MerkleCalled =>
        /\ Len(toolCall.hashes) = 0 =>
             /\ toolCall.completion =
                    shaInfinity(Str(<<"e", "m", "p", "t", "y">>), toolCall.depth, NoOptions)
             /\ (env.crypto /\ DepthOf(toolCall.depth) \in 1..256) =>
                    toolCall.completion =
                        Return(Str(RefShaInfinity(<<"e", "m", "p", "t", "y">>,
                                                  DepthOf(toolCall.depth), TRUE,
                                                  DEFAULT_CONFIG.salt[2], TRUE)))
        /\ Len(toolCall.hashes) = 1 =>
             /\ toolCall.completion = Return(toolCall.hashes[1])
             /\ toolCall.digests = 0

\* the root of a single leaf was returned, with a backend at hand and at the
\* default depth
C11_Witness ==
    /\ MerkleCalled
    /\ Len(toolCall.hashes) = 1
    /\ toolCall.depth = Undefined
    /\ env.crypto
    /\ IsDigest(toolCall.completion)

PairwiseDistinct(hashes) ==
    \A i \in 1..Len(hashes), j \in 1..Len(hashes) : i # j => hashes[i] # hashes[j]

\* C12: Merkle order sensitivity.  For pairwise distinct leaf digests, the root
\* infinityMerkleRoot returned differs from the root of the same leaves in any
\* other order (a swap of non-adjacent leaves and the reversal among them).
C12_MerkleOrderSensitive ==
    (MerkleCalled /\ IsReturn(toolCall.completion) /\ PairwiseDistinct(toolCall.hashes)) =>
        \A p \in Permutations(1..Len(toolCall.hashes)) :
            (\E i \in 1..Len(toolCall.hashes) : p[i] # i) =>
                infinityMerkleRoot([i \in 1..Len(toolCall.hashes) |-> toolCall.hashes[p[i]]],
                                   toolCall.depth) # toolCall.completion

\* a root was returned for four pairwise distinct leaves
C12_Witness ==
    /\ MerkleCalled
    /\ Len(toolCall.hashes) = 4
    /\ PairwiseDistinct(toolCall.hashes)
    /\ IsDigest(toolCall.completion)

\* C(left, right) written out: the digest of salt ':' left right, chained
\* depth times, the depth not bound into it
RefCombine(left, right, d) ==
    RefShaInfinity(left \o right, d, TRUE, DEFAULT_CONFIG.salt[2], FALSE)

\* C20: Merkle pairing.  A returned root of two or more leaves is the fold of
\* the levels in which consecutive elements are paired left to right, only an
\* unpaired last element is paired with itself, and a pair is combined as
\* shaInfinity(left + right, depth, includeDepthInHash = false):
\* C(h1,h2); C(C(h1,h2),C(h3,h3)); C(C(h1,h2),C(h3,h4));
\* C(C(C(h1,h2),C(h3,h4)),C(C(h5,h5),C(h5,h5))).
C20_MerklePairing ==
    (MerkleCalled /\ IsReturn(toolCall.completion) /\ Len(toolCall.hashes) >= 2) =>
        LET h == [i \in 1..Len(toolCall.hashes) |-> toolCall.hashes[i][2]]
            d == DepthOf(toolCall.depth)
            root == toolCall.completion[2][2]
        IN /\ Len(h) = 2 => root = RefCombine(h[1], h[2], d)
           /\ Len(h) = 3 =>
                root = RefCombine(RefCombine(h[1], h[2], d), RefCombine(h[3], h[3], d), d)
           /\ Len(h) = 4 =>
                root = RefCombine(RefCombine(h[1], h[2], d), RefCombine(h[3], h[4], d), d)
           /\ Len(h) = 5 =>
                root = RefCombine(
                         RefCombine(RefCombine(h[1], h[2], d), RefCombine(h[3], h[4], d), d),
                         RefCombine(RefCombine(h[5], h[5], d), RefCombine(h[5], h[5], d), d),
                         d)

\* a root was returned for three leaves, the last one different from the first
C20_Witness ==
    /\ MerkleCalled
    /\ Len(toolCall.hashes) = 3
    /\ toolCall.hashes[3] # toolCall.hashes[1]
    /\ IsDigest(toolCall.completion)

(***************************************************************************)
(* Properties of the proof-of-work search                                  *)
(***************************************************************************)
PowCalled == toolCall.done /\ toolCall.op = "proofOfWork"

PowReturned == PowCalled /\ IsReturn(toolCall.completion)

\* the difficulty a call runs at: the argument, or the default for none
DifficultyOf(difficultyArg) == Default(difficultyArg, Num(DefaultDifficulty))[2]

\* the '0' characters the returned hash starts with
ReturnedLeadingZeros == LeadingZeros(toolCall.lead, toolCall.completion[2].nonce)

\* the returned hash is the digest of the attempt the returned nonce names
ReturnedHashIsAttempt ==
    toolCall.completion[2].hash =
        Str(RefShaInfinity(toolCall.data[2] \o <<":">> \o Digits(toolCall.completion[2].nonce),
                           DepthOf(toolCall.depth), TRUE, DEFAULT_CONFIG.salt[2], FALSE))

\* C13 as stated: proof-of-work validity.  Whenever proofOfWork returns
\* verified == true, the returned hash starts with exactly difficulty '0'
\* characters, no more; and verified is true if and only if the hash meets the
\* prefix constraint.
C13_ExactlyDifficultyZeros ==
    PowReturned =>
        /\ ReturnedHashIsAttempt
        /\ toolCall.completion[2].verified =>
               ReturnedLeadingZeros = DifficultyOf(toolCall.difficulty)
        /\ toolCall.completion[2].verified <=>
               ReturnedLeadingZeros >= DifficultyOf(toolCall.difficulty)

\* C13 amended: whenever proofOfWork returns, the returned hash is the digest
\* of the attempt at the returned nonce, and verified is true if and only if
\* that hash starts with at least difficulty '0' characters.
C13_AtLeastDifficultyZeros ==
    PowReturned =>
        /\ ReturnedHashIsAttempt
        /\ toolCall.completion[2].verified <=>
               ReturnedLeadingZeros >= DifficultyOf(toolCall.difficulty)

\* the search went past a failing first attempt and returned verified with a
\* hash of more '0' characters than the difficulty asked for
C13_Witness ==
    /\ PowReturned
    /\ toolCall.completion[2].verified
    /\ toolCall.completion[2].nonce = 1
    /\ ReturnedLeadingZeros > DifficultyOf(toolCall.difficulty)
    /\ DifficultyOf(toolCall.difficulty) >= 1

\* C14: proof-of-work attempt budget.  With a backend and an accepted depth
\* every proofOfWork call returns, with 1 <= attempts <= 10,000,000 and
\* nonce = attempts - 1; a result that is not verified has attempts =
\* 10,000,000, and when no attempt's digest meets the prefix the result is not
\* verified and has attempts = 10,000,000.
C14_PowBudget ==
    (PowCalled /\ env.crypto /\ DepthOf(toolCall.depth) \in 1..256) =>
        /\ IsReturn(toolCall.completion)
        /\ toolCall.completion[2].attempts \in 1..10000000
        /\ toolCall.completion[2].nonce = toolCall.completion[2].attempts - 1
        /\ ~toolCall.completion[2].verified => toolCall.completion[2].attempts = 10000000
        /\ (\A n \in DOMAIN toolCall.lead :
                toolCall.lead[n] < DifficultyOf(toolCall.difficulty)) =>
               /\ ~toolCall.completion[2].verified
               /\ toolCall.completion[2].attempts = 10000000

\* the budget was used up: ten million attempts, none verified
C14_Witness ==
    /\ PowReturned
    /\ ~toolCall.completion[2].verified
    /\ toolCall.completion[2].attempts = 10000000
    /\ toolCall.completion[2].nonce = 9999999

(***************************************************************************)
(* Properties of the base digest primitive                                 *)
(***************************************************************************)
Sha256Called == toolCall.done /\ toolCall.op = "sha256"

Sha256AsyncCalled == toolCall.done /\ toolCall.op = "sha256Async"

\* the call returned the digest of its text, or else threw
DigestOrThrow(returns) ==
    IF returns THEN toolCall.completion = Return(Str(Digest(toolCall.data[2])))
    ELSE IsThrow(toolCall.completion)

\* C15 as stated: primitive availability.  sha256 returns a digest when a
\* cryptographic backend, Node crypto or WebCrypto subtle, is reachable and
\* fails when none is; sha256Async returns a digest whenever either backend is
\* reachable and fails only when neither is.
C15_AnyBackendServesSha256 ==
    /\ Sha256Called => DigestOrThrow(env.crypto \/ env.subtle)
    /\ Sha256AsyncCalled => DigestOrThrow(env.crypto \/ env.subtle)

\* C15 amended: sha256 returns a digest when Node crypto is reachable and fails
\* with an error otherwise, also where only WebCrypto subtle is reachable;
\* sha256Async returns a digest whenever either backend is reachable and fails
\* only when neither is.
C15_PrimitiveAvailability ==
    /\ Sha256Called => DigestOrThrow(env.crypto)
    /\ Sha256AsyncCalled => DigestOrThrow(env.crypto \/ env.subtle)

\* sha256 was called where only WebCrypto subtle is reachable, and failed
C15_Witness ==
    /\ Sha256Called
    /\ ~env.crypto
    /\ env.subtle
    /\ IsThrow(toolCall.completion)

(***************************************************************************)
(* Properties of the public operations: validation and chain links         *)
(***************************************************************************)
\* a call of createStateIntegrity, of infinityMerkleRoot with two or more
\* leaves, or of proofOfWork, that failed with the depth error
FailedOnDepth ==
    /\ toolCall.done
    /\ \/ toolCall.op \in {"createStateIntegrity", "proofOfWork"}
       \/ toolCall.op = "infinityMerkleRoot" /\ Len(toolCall.hashes) >= 2
    /\ DepthOf(toolCall.depth) \notin 1..256
    /\ toolCall.completion \in SyncDepthErrors

\* C16: validation precedes hashing.  When createStateIntegrity,
\* infinityMerkleRoot with two or more leaves, or proofOfWork is called with a
\* depth outside 1..256 and fails with the depth error, no base digest has
\* been applied in the call.
C16_ValidationBeforeHashing ==
    FailedOnDepth => toolCall.digests = 0

ChainCalled == toolCall.done /\ toolCall.op = "infinityChain"

\* the text a link binds: previousHash ':' data ':' timestamp
RefLinkText(previousHash, data, time) ==
    previousHash[2] \o <<":">> \o data[2] \o <<":">> \o Digits(time)

\* the link digest written out, at depth d
RefLink(previousHash, data, time, d) ==
    Return(Str(RefShaInfinity(RefLinkText(previousHash, data, time), d, TRUE,
                              DEFAULT_CONFIG.salt[2], TRUE)))

\* C17: chain link binding.  infinityChain(previousHash, data, depth) completes
\* as shaInfinity(previousHash + ':' + data + ':' + now, depth) does for the
\* timestamp now of the call, and a returned link differs from the link of
\* any other previousHash, data or timestamp at that depth.
C17_ChainLinkBinding ==
    ChainCalled =>
        /\ toolCall.completion =
               shaInfinity(Str(RefLinkText(toolCall.previousHash, toolCall.data,
                                           toolCall.time)),
                           toolCall.depth, NoOptions)
        /\ IsReturn(toolCall.completion) =>
             /\ toolCall.completion =
                    RefLink(toolCall.previousHash, toolCall.data, toolCall.time,
                            DepthOf(toolCall.depth))
             /\ \A previousHash \in PreviousHashes, data \in ToolData, time \in 0..MaxNow :
                    <<previousHash, data, time>>
                        # <<toolCall.previousHash, toolCall.data, toolCall.time>>
                    => RefLink(previousHash, data, time, DepthOf(toolCall.depth))
                           # toolCall.completion

\* a link was returned after the clock advanced, for data that holds the
\* separator itself
C17_Witness ==
    /\ ChainCalled
    /\ IsDigest(toolCall.completion)
    /\ toolCall.time = 1
    /\ toolCall.data = Str(<<"a", ":", "1">>)

(***************************************************************************)
(* The chained hash engine against the reference construction              *)
(***************************************************************************)
\* the digests opened in a text: the base digest applications it went through
DigestsIn(text) == Cardinality({i \in DOMAIN text : text[i] = "sha256("})

SyncUseSalt == Default(syncCall.options.useSalt, Bool(TRUE))[2]
SyncSalt == Default(syncCall.options.salt, DEFAULT_CONFIG.salt)[2]
SyncIncludeDepth == Default(syncCall.options.includeDepthInHash, Bool(TRUE))[2]

C19_DepthCheckFirst ==
    /\ (syncCall.done /\ DepthOf(syncCall.depth) \notin 1..256) =>
         /\ syncCall.completion \in SyncDepthErrors
         /\ shaInfinityDigests(syncCall.data, syncCall.depth, syncCall.options) = 0
    /\ (task.pc = "settled" /\ task.depth[2] \notin 1..256) =>
         /\ task.completion = AsyncDepthError
         /\ task.i = 0
         /\ task.currentHash = Undefined

\* both modes failed on depth 257 where no backend is reachable: the depth
\* error came before the missing backend could show
C19_Witness ==
    /\ syncCall.done
    /\ syncCall.depth = Num(257)
    /\ ~env.crypto
    /\ ~env.subtle
    /\ syncCall.completion = Throw("Depth cannot exceed 256")
    /\ task.pc = "settled"
    /\ task.completion = AsyncDepthError

(***************************************************************************)
(* The order of the proof-of-work search                                   *)
(***************************************************************************)
\* C21: proof-of-work search order.  proofOfWork tries the nonces from 0
\* upwards, one attempt each, and stops at the first whose digest meets the
\* prefix: in a verified result no nonce below the returned one has a digest
\* that meets the prefix, the attempts made are the nonces 0 .. nonce, and the
\* returned hash is the digest of data ':' nonce recomputed at that depth
\* without depth binding.
C21_PowLeastNonce ==
    (PowReturned /\ toolCall.completion[2].verified) =>
        /\ \A n \in DOMAIN toolCall.lead \cup {0} :
               n < toolCall.completion[2].nonce =>
                   ~StartsWithPrefix(toolCall.lead, n, DifficultyOf(toolCall.difficulty))
        /\ StartsWithPrefix(toolCall.lead, toolCall.completion[2].nonce,
                            DifficultyOf(toolCall.difficulty))
        /\ toolCall.completion[2].attempts = toolCall.completion[2].nonce + 1
        /\ ReturnedHashIsAttempt

\* the search stopped at nonce 1: nonce 0 failed the prefix, nonce 1 met it,
\* and so did the last nonce of the budget, which was not reached
C21_Witness ==
    /\ PowReturned
    /\ toolCall.completion[2].verified
    /\ toolCall.completion[2].nonce = 1
    /\ DifficultyOf(toolCall.difficulty) >= 1
    /\ StartsWithPrefix(toolCall.lead, PowBudget - 1, DifficultyOf(toolCall.difficulty))

(***************************************************************************)
(* Injectivity of the canonical serializer                                 *)
(***************************************************************************)
\* built from null, booleans, numbers (NaN is one), strings, sequences and
\* string-keyed mappings
RECURSIVE InContract(_)
InContract(v) ==
    CASE v[1] \in {"null", "boolean", "number", "nan", "string"} -> TRUE
      [] v[1] = "array" -> \A i \in 1..Len(v[2]) : InContract(v[2][i])
      [] v[1] = "object" -> \A i \in 1..Len(v[2]) : InContract(v[2][i][2])
      [] OTHER -> FALSE

\* C22: serializer injectivity up to key order.  For two values built from
\* null, booleans, numbers, strings, sequences and string-keyed mappings,
\* stableStringify returns the same string only if the values are equal up to
\* the insertion order of mapping keys.
C22_SerializerInjective ==
    (/\ serialCall.done
     /\ InContract(serialCall.a)
     /\ InContract(serialCall.b)
     /\ serialCall.outA = serialCall.outB)
    => SameContent(serialCall.a, serialCall.b)

(***************************************************************************)
(* The frame of a verification                                             *)
(***************************************************************************)
\* C24: verification frame.  A call of verifyStateIntegrity leaves both its
\* arguments as they were: the state the caller holds and the stored record
\* have after the call the value they had before it, and the arguments the
\* call was given are that state and a record read back from that store,
\* whether the call returned a result or raised.
C24_VerifyLeavesArguments ==
    [][(~verifyCall.done /\ verifyCall'.done) =>
           /\ state' = state
           /\ integrity' = integrity
           /\ verifyCall'.state = state
           /\ verifyCall'.integrity \in RecordVariants(integrity)]_vars

C24_Witness ==
    /\ verifyCall.done
    /\ IsReturn(verifyCall.completion)
    /\ verifyCall.state = Obj(<< <<KeyB, OneText>>, <<KeyA, One>> >>)
    /\ state = verifyCall.state
    /\ integrity.sha256 # Undefined
    /\ verifyCall.integrity = integrity

(***************************************************************************)
(* The intermediate-hash cache                                             *)
(***************************************************************************)
\* C25: cache transparency.  After any sequence of shaInfinity calls the
\* outcome of a call is the one the cache-free construction gives for its
\* data, depth and options (a failure where that construction fails), a call
\* repeated with the same data, depth and options has the outcome of the call
\* before it, and the cache never holds more than MAX_CACHE_SIZE entries.
C25_CacheTransparency ==
    /\ Cardinality(hashCache) <= MAX_CACHE_SIZE
    /\ syncCall.done =>
         IF env.crypto /\ DepthOf(syncCall.depth) \in 1..256
         THEN syncCall.completion =
                  Return(Str(RefShaInfinity(syncCall.data[2], DepthOf(syncCall.depth),
                                            SyncUseSalt, SyncSalt, SyncIncludeDepth)))
         ELSE IsThrow(syncCall.completion)
    /\ prevCall.done => syncCall.completion = prevCall.completion

\* the same data, depth and options were hashed twice in a row and a digest
\* came back
C25_Witness ==
    /\ prevCall.done
    /\ IsDigest(prevCall.completion)
    /\ IsDigest(syncCall.completion)
    /\ syncCall.depth = Num(3)

(***************************************************************************)
(* Injectivity of the Merkle root                                          *)
(***************************************************************************)
\* C26 as stated: Merkle root injectivity.  With a collision-free base digest,
\* no other non-empty sequence of digests, of whatever length, has at the same
\* depth the root infinityMerkleRoot returned for a non-empty sequence.
C26_MerkleInjective ==
    (MerkleCalled /\ IsReturn(toolCall.completion) /\ Len(toolCall.hashes) >= 1) =>
        \A other \in LeafSeqs :
            (Len(other) >= 1 /\ other # toolCall.hashes) =>
                infinityMerkleRoot(other, toolCall.depth) # toolCall.completion

\* the fold written out over the texts of the leaves: a single text is the
\* root, else consecutive texts are combined, an unpaired last one with itself
RECURSIVE RefMerkleRoot(_, _)
RefMerkleRoot(h, d) ==
    IF Len(h) = 1 THEN h[1]
    ELSE RefMerkleRoot([k \in 1..((Len(h) + 1) \div 2) |->
                           RefCombine(h[2 * k - 1],
                                      IF 2 * k <= Len(h) THEN h[2 * k] ELSE h[2 * k - 1],
                                      d)], d)

LeafTexts(hashes) == [i \in 1..Len(hashes) |-> hashes[i][2]]

\* C26 amended: Merkle root injectivity among sequences of one length.  With a
\* collision-free base digest, the root infinityMerkleRoot returned for a
\* non-empty sequence is the fold of that sequence, and no other sequence of
\* digests of the same length folds at the same depth to that root; sequences
\* of different lengths can share a root, as [h1,h2,h3] and [h1,h2,h3,h3] do.
C26_MerkleInjectiveSameLength ==
    (MerkleCalled /\ IsReturn(toolCall.completion) /\ Len(toolCall.hashes) >= 1) =>
        LET d == DepthOf(toolCall.depth)
            root == toolCall.completion[2][2]
        IN /\ root = RefMerkleRoot(LeafTexts(toolCall.hashes), d)
           /\ \A other \in [1..Len(toolCall.hashes) -> LeafDigests] :
                  other # toolCall.hashes => RefMerkleRoot(LeafTexts(other), d) # root
           /\ Len(toolCall.hashes) = 3 =>
                  infinityMerkleRoot(toolCall.hashes \o <<toolCall.hashes[3]>>,
                                     toolCall.depth) = toolCall.completion

\* a root was returned for three leaves whose last is not the one before it
C26_Witness ==
    /\ MerkleCalled
    /\ Len(toolCall.hashes) = 3
    /\ toolCall.hashes[3] # toolCall.hashes[2]
    /\ toolCall.depth = Undefined
    /\ IsDigest(toolCall.completion)

(***************************************************************************)
(* stableStringify over objects with identity                              *)
(***************************************************************************)
\* objects of a heap, and the call stack the engine allows
MaxNodes == 2
StackLimit == 4

NodeIds == 1..MaxNodes

\* what an identity holds: a primitive, an array of references, an object of
\* referencing properties in their insertion order
NodeValues ==
    {<<"leaf", One>>, <<"leaf", Null>>}
    \cup {<<"array", <<j>> >> : j \in NodeIds}
    \cup {<<"array", <<j, k>> >> : j \in NodeIds, k \in NodeIds}
    \cup {<<"object", << <<KeyA, j>> >> >> : j \in NodeIds}
    \cup {<<"object", << <<KeyB, j>>, <<KeyA, k>> >> >> : j \in NodeIds, k \in NodeIds}

Heaps == [NodeIds -> NodeValues]

\* the value handed to stableStringify
RootId == 1

\* the references a node holds, in the order stableStringify visits them:
\* obj.map's, or Object.keys(obj).sort()'s
Children(node) ==
    CASE node[1] = "array" -> node[2]
      [] node[1] = "object" ->
           LET keys == Sort([i \in 1..Len(node[2]) |-> node[2][i][1]])
           IN [i \in 1..Len(keys) |->
                 node[2][CHOOSE n \in 1..Len(node[2]) : node[2][n][1] = keys[i]][2]]
      [] OTHER -> <<>>

SortedKeys(node) == Sort([i \in 1..Len(node[2]) |-> node[2][i][1]])

\* an activation of stableStringify(obj): obj's identity, the elements or keys
\* mapped so far and the strings they gave
Frame(id) == [id |-> id, i |-> 0, parts |-> <<>>]

\* the engine's error on a call that finds the call stack full
StackOverflow == Throw("RangeError: Maximum call stack size exceeded")

\* what an activation returns once its elements or keys are mapped
FrameResult(heap, frame) ==
    LET node == heap[frame.id]
    IN CASE node[1] = "leaf" -> JSONstringify(node[2])[2][2]
         [] node[1] = "array" ->
              <<"[">>
              \o Join([i \in 1..Len(frame.parts) |-> Str(frame.parts[i])], <<",">>)
              \o <<"]">>
         [] OTHER ->
              LET keys == SortedKeys(node)
              IN <<"{">>
                 \o Join([i \in 1..Len(keys) |->
                            Str(Quote(keys[i]) \o <<":">> \o frame.parts[i])], <<",">>)
                 \o <<"}">>

InitWalk ==
    /\ env \in Envs
    /\ now = 0
    /\ state = Undefined
    /\ integrity = EmptyRecord
    /\ createCall = NoCreate
    /\ verifyCall = NoVerify
    /\ syncCall = NoSync
    /\ prevCall = NoSync
    /\ task = IdleTask
    /\ serialCall = NoSerial
    /\ toolCall = NoTool
    /\ hashCache = {}
    /\ config = DEFAULT_CONFIG
    /\ walk = NoWalk
    /\ sync = NoRun

UnchangedButWalk ==
    UNCHANGED <<env, now, state, integrity, createCall, verifyCall, syncCall, prevCall,
                task, serialCall, toolCall, hashCache, config, sync>>

\* the caller hands a value of some heap to stableStringify
CallWalk ==
    /\ walk.pc = "idle"
    /\ \E heap \in Heaps :
         walk' = [pc |-> "run", heap |-> heap, stack |-> <<Frame(RootId)>>,
                  completion |-> Throw("not settled")]
    /\ UnchangedButWalk

\* the running activation maps its next element or key: stableStringify is
\* called on what it refers to, whatever is on the stack already; the call
\* the stack has no room for raises the engine's error through all callers
EnterChild ==
    LET top == walk.stack[Len(walk.stack)]
        children == Children(walk.heap[top.id])
    IN /\ walk.pc = "run"
       /\ top.i < Len(children)
       /\ walk' = IF Len(walk.stack) >= StackLimit
                  THEN [walk EXCEPT !.pc = "done", !.stack = <<>>,
                                    !.completion = StackOverflow]
                  ELSE [walk EXCEPT !.stack = Append(@, Frame(children[top.i + 1]))]
       /\ UnchangedButWalk

\* the running activation has nothing left to map and returns its string, to
\* the activation that called it or to the caller
ReturnString ==
    LET n == Len(walk.stack)
        top == walk.stack[n]
        result == FrameResult(walk.heap, top)
    IN /\ walk.pc = "run"
       /\ top.i = Len(Children(walk.heap[top.id]))
       /\ walk' = IF n = 1
                  THEN [walk EXCEPT !.pc = "done", !.stack = <<>>,
                                    !.completion = Return(Str(result))]
                  ELSE [walk EXCEPT
                          !.stack = [SubSeq(@, 1, n - 1) EXCEPT
                                       ![n - 1] = [@ EXCEPT !.i = @ + 1,
                                                            !.parts = Append(@, result)]]]
       /\ UnchangedButWalk

\* the caller takes the outcome
ResumeWalk ==
    /\ walk.pc = "done"
    /\ walk' = NoWalk
    /\ UnchangedButWalk

NextWalk ==
    \/ CallWalk
    \/ EnterChild
    \/ ReturnString
    \/ ResumeWalk

SpecWalk == InitWalk /\ [][NextWalk]_vars

\* the identities reachable from a set of them
RECURSIVE ReachableFrom(_, _)
ReachableFrom(heap, ids) ==
    LET more == ids \cup UNION {{Children(heap[i])[n] : n \in 1..Len(Children(heap[i]))}
                                  : i \in ids}
    IN IF more = ids THEN ids ELSE ReachableFrom(heap, more)

\* the value holds a reference cycle: something reachable from it is
\* reachable from its own references
Cyclic(heap) ==
    \E i \in ReachableFrom(heap, {RootId}) :
        i \in ReachableFrom(heap, {Children(heap[i])[n] : n \in 1..Len(Children(heap[i]))})

\* C23: cycle guard.  stableStringify applied to a structure that contains a
\* reference cycle never enters an object it is already serializing, and
\* ends with a serialization error, not with the engine's error for an
\* exhausted call stack.
C23_CycleGuard ==
    /\ \A i \in 1..Len(walk.stack), j \in 1..Len(walk.stack) :
           i # j => walk.stack[i].id # walk.stack[j].id
    /\ (walk.pc = "done" /\ Cyclic(walk.heap)) =>
           /\ IsThrow(walk.completion)
           /\ walk.completion # StackOverflow

(***************************************************************************)
(* The exported configuration                                              *)
(***************************************************************************)
\* what a caller may write into the properties of the exported config
ConfigWrites ==
    [defaultDepth |-> {3}, minDepth |-> {2}, maxDepth |-> {2},
     salt |-> {Str(<<"a">>)}, cacheEnabled |-> {FALSE}]

ConfigDepths ==
    {Undefined, Num(DEFAULT_CONFIG.minDepth - 1), Num(DEFAULT_CONFIG.minDepth),
     Num(DEFAULT_CONFIG.minDepth + 2), Num(DEFAULT_CONFIG.maxDepth + 1)}

ConfigLeafSeqs ==
    {<<Str(Digest(<<"1">>)), Str(Digest(<<"2">>))>>,
     <<Str(Digest(<<"1">>)), Str(Digest(<<"2">>)), Str(Digest(<<"3">>))>>}

ConfigLeads == {[n \in PowNonces |-> IF n = 1 THEN 1 ELSE 0], [n \in PowNonces |-> 0]}

\* const config = { ...DEFAULT_CONFIG }
InitConfig ==
    /\ env \in Envs
    /\ now = 0
    /\ state = Undefined
    /\ integrity = EmptyRecord
    /\ createCall = NoCreate
    /\ verifyCall = NoVerify
    /\ syncCall = NoSync
    /\ prevCall = NoSync
    /\ task = IdleTask
    /\ serialCall = NoSerial
    /\ toolCall = NoTool
    /\ hashCache = {}
    /\ config = DEFAULT_CONFIG
    /\ walk = NoWalk
    /\ sync = NoRun

\* a caller assigns to a property of the exported object
WriteConfig ==
    /\ ~toolCall.done
    /\ \E f \in DOMAIN ConfigWrites :
         \E v \in ConfigWrites[f] \cup {DEFAULT_CONFIG[f]} :
            /\ v # config[f]
            /\ config' = [config EXCEPT ![f] = v]
    /\ UNCHANGED <<env, now, state, integrity, createCall, verifyCall, syncCall, prevCall,
                   task, serialCall, toolCall, hashCache, walk, sync>>

UnchangedButToolOfConfig ==
    UNCHANGED <<env, now, state, integrity, createCall, verifyCall, syncCall, prevCall,
                task, serialCall, hashCache, config, walk, sync>>

ConfigCallShaInfinity ==
    /\ ~toolCall.done
    /\ \E data \in ToolData, depth \in ConfigDepths :
         toolCall' = [NoTool EXCEPT !.done = TRUE, !.op = "shaInfinity",
                        !.data = data, !.depth = depth, !.time = now,
                        !.completion = shaInfinity(data, depth, NoOptions),
                        !.digests = shaInfinityDigests(data, depth, NoOptions)]
    /\ UnchangedButToolOfConfig

ConfigCallProofOfWork ==
    /\ ~toolCall.done
    /\ \E data \in ToolData, depth \in ConfigDepths, lead \in ConfigLeads :
         toolCall' = [NoTool EXCEPT !.done = TRUE, !.op = "proofOfWork",
                        !.data = data, !.difficulty = Num(1), !.depth = depth,
                        !.lead = lead, !.time = now,
                        !.completion = proofOfWork(data, Num(1), depth, lead),
                        !.digests = proofOfWorkDigests(data, Num(1), depth, lead)]
    /\ UnchangedButToolOfConfig

ConfigCallInfinityMerkleRoot ==
    /\ ~toolCall.done
    /\ \E hashes \in ConfigLeafSeqs, depth \in ConfigDepths :
         toolCall' = [NoTool EXCEPT !.done = TRUE, !.op = "infinityMerkleRoot",
                        !.hashes = hashes, !.depth = depth, !.time = now,
                        !.completion = infinityMerkleRoot(hashes, depth),
                        !.digests = infinityMerkleRootDigests(hashes, depth)]
    /\ UnchangedButToolOfConfig

ConfigCallCreateStateIntegrity ==
    /\ ~toolCall.done
    /\ \E st \in ToolStates, depth \in ConfigDepths :
         /\ toolCall' = [NoTool EXCEPT !.done = TRUE, !.op = "createStateIntegrity",
                           !.depth = depth, !.time = now,
                           !.completion = createStateIntegrity(st, depth),
                           !.digests = createStateIntegrityDigests(st, depth)]
         /\ state' = st
    /\ UNCHANGED <<env, now, integrity, createCall, verifyCall, syncCall, prevCall,
                   task, serialCall, hashCache, config, walk, sync>>

\* the caller takes the result and goes on
ResumeConfig ==
    /\ toolCall.done
    /\ toolCall' = NoTool
    /\ UnchangedButToolOfConfig

NextConfig ==
    \/ WriteConfig
    \/ ConfigCallShaInfinity
    \/ ConfigCallProofOfWork
    \/ ConfigCallInfinityMerkleRoot
    \/ ConfigCallCreateStateIntegrity
    \/ ResumeConfig

SpecConfig == InitConfig /\ [][NextConfig]_vars

\* the chained digest of a text at depth d under the defaults the module was
\* loaded with
RefDefaultDigest(text, d) == Str(RefShaInfinity(text, d, TRUE, DEFAULT_CONFIG.salt[2], TRUE))

\* C27: configuration non-interference.  Whatever has been written to the
\* exported config, a call of shaInfinity, proofOfWork, infinityMerkleRoot or
\* createStateIntegrity accepts the depths 1..256 and no others, runs at depth
\* 7 when given none, salts with 'blackroad-infinity' and returns the digest
\* the construction with those defaults gives: its outcome is a function of
\* its arguments and the backend alone.
C27_ConfigNonInterference ==
    toolCall.done =>
        LET d == DepthOf(toolCall.depth)
            c == toolCall.completion
        IN /\ DEFAULT_CONFIG.defaultDepth = 7
           /\ toolCall.depth = Undefined => d = 7
           /\ d \notin 1..256 => IsThrow(c)
           /\ (env.crypto \/ toolCall.op # "createStateIntegrity") =>
                /\ d < 1 => c = Throw("Depth must be at least 1")
                /\ d > 256 => c = Throw("Depth cannot exceed 256")
           /\ (d \in 1..256 /\ ~env.crypto) => IsThrow(c)
           /\ (d \in 1..256 /\ env.crypto) =>
                CASE toolCall.op = "shaInfinity" ->
                       c = Return(RefDefaultDigest(toolCall.data[2], d))
                  [] toolCall.op = "proofOfWork" ->
                       IsReturn(c) /\ ReturnedHashIsAttempt
                  [] toolCall.op = "infinityMerkleRoot" ->
                       c = Return(Str(RefMerkleRoot(LeafTexts(toolCall.hashes), d)))
                  [] toolCall.op = "createStateIntegrity" ->
                       /\ IsReturn(c)
                       /\ c[2].chain_depth = Num(d)
                       /\ c[2].sha_infinity =
                              RefDefaultDigest(stableStringify(state)[2][2], d)
                       /\ c[2].sha256 = Str(Digest(stableStringify(state)[2][2]))

\* shaInfinity returned a digest for no depth given, after the default depth,
\* the bounds, the salt and the cache switch of config had all been rewritten
C27_Witness ==
    /\ toolCall.done
    /\ toolCall.op = "shaInfinity"
    /\ toolCall.depth = Undefined
    /\ IsDigest(toolCall.completion)
    /\ config.defaultDepth = 3
    /\ config.minDepth = 2
    /\ config.maxDepth = 2
    /\ config.salt = Str(<<"a">>)
    /\ config.cacheEnabled = FALSE

(***************************************************************************)
(* scripts/sync-state.sh                                                   *)
(***************************************************************************)
\* the first argument: a target the script knows, or anything else
SyncTargets == {"all", "cloudflare", "salesforce", "github", "pi"}
SyncArguments == SyncTargets \cup {"other"}

\* the sync functions a target runs, in the order of its case branch
SyncFunctions(target) ==
    IF target = "all" THEN <<"cloudflare", "salesforce", "github", "pi">> ELSE <<target>>

\* the status a sync function returns: sync_cloudflare 1 when its upload is
\* answered without "success":true, 0 when it skips or succeeds; the others
\* return 0 whatever happens
SyncStatus(run, fn) ==
    IF fn = "cloudflare" /\ run.credentials /\ ~run.uploaded THEN 1 ELSE 0

InitSync ==
    /\ env \in Envs
    /\ now = 0
    /\ state = Undefined
    /\ integrity = EmptyRecord
    /\ createCall = NoCreate
    /\ verifyCall = NoVerify
    /\ syncCall = NoSync
    /\ prevCall = NoSync
    /\ task = IdleTask
    /\ serialCall = NoSerial
    /\ toolCall = NoTool
    /\ hashCache = {}
    /\ config = DEFAULT_CONFIG
    /\ walk = NoWalk
    /\ sync = NoRun

UnchangedButSync ==
    UNCHANGED <<env, now, state, integrity, createCall, verifyCall, syncCall, prevCall,
                task, serialCall, toolCall, hashCache, config, walk>>

\* main "$@": the script is started with an argument, in an environment where
\* the state file exists or not, the backup can be written or not, node is
\* installed or not, the Cloudflare variables are set or not and the upload
\* is answered with success or not
StartSync ==
    /\ sync.pc = "none"
    /\ \E target \in SyncArguments, stateFile \in BOOLEAN, backupOk \in BOOLEAN,
          node \in BOOLEAN, credentials \in BOOLEAN, uploaded \in BOOLEAN :
         sync' = [NoRun EXCEPT !.pc = "check_state_file", !.target = target,
                    !.stateFile = stateFile, !.backupOk = backupOk, !.node = node,
                    !.credentials = credentials, !.uploaded = uploaded]
    /\ UnchangedButSync

\* check_state_file: exit 1 without the state file
CheckStateFile ==
    /\ sync.pc = "check_state_file"
    /\ sync' = IF sync.stateFile THEN [sync EXCEPT !.pc = "compute_hash"]
               ELSE [sync EXCEPT !.pc = "exited", !.status = 1]
    /\ UnchangedButSync

\* compute_hash: with node or with sha256sum, no failure leaves it
ComputeHash ==
    /\ sync.pc = "compute_hash"
    /\ sync' = [sync EXCEPT !.pc = "create_backup"]
    /\ UnchangedButSync

\* create_backup: under set -e a failing mkdir or cp ends the script
CreateBackup ==
    /\ sync.pc = "create_backup"
    /\ sync' = IF sync.backupOk THEN [sync EXCEPT !.pc = "case"]
               ELSE [sync EXCEPT !.pc = "exited", !.status = 1]
    /\ UnchangedButSync

\* case "$target" in ...: the branch of a known target, exit 1 for another
CaseTarget ==
    /\ sync.pc = "case"
    /\ sync' = IF sync.target \in SyncTargets
               THEN [sync EXCEPT !.pc = "sync", !.todo = SyncFunctions(sync.target)]
               ELSE [sync EXCEPT !.pc = "exited", !.status = 1]
    /\ UnchangedButSync

\* sync_X && ...: the sync function runs; on status 0 the list goes on to
\* update_sync_timestamp, on another status the list ends there and, the
\* failing command not being the list's last, set -e does not end the script
SyncFunction ==
    LET fn == Head(sync.todo)
        status == SyncStatus(sync, fn)
    IN /\ sync.pc = "sync"
       /\ sync.todo # <<>>
       /\ sync' = IF status = 0
                  THEN [sync EXCEPT !.pc = "update_sync_timestamp",
                                    !.returned = Append(@, <<fn, status>>)]
                  ELSE [sync EXCEPT !.todo = Tail(@),
                                    !.returned = Append(@, <<fn, status>>)]
       /\ UnchangedButSync

\* ... && update_sync_timestamp "X": returns 0 with or without node, whether
\* or not the state file could be rewritten
UpdateSyncTimestamp ==
    /\ sync.pc = "update_sync_timestamp"
    /\ sync' = [sync EXCEPT !.pc = "sync", !.todo = Tail(@),
                            !.stamped = Append(@, Head(sync.todo))]
    /\ UnchangedButSync

\* after esac: log_success "Sync completed for target: $target"; main
\* returns the status of its last echo
SyncCompleted ==
    /\ sync.pc = "sync"
    /\ sync.todo = <<>>
    /\ sync' = [sync EXCEPT !.pc = "exited", !.completed = TRUE, !.status = 0]
    /\ UnchangedButSync

\* the script is run again
RunAgain ==
    /\ sync.pc = "exited"
    /\ sync' = NoRun
    /\ UnchangedButSync

NextSync ==
    \/ StartSync
    \/ CheckStateFile
    \/ ComputeHash
    \/ CreateBackup
    \/ CaseTarget
    \/ SyncFunction
    \/ UpdateSyncTimestamp
    \/ SyncCompleted
    \/ RunAgain

SpecSync == InitSync /\ [][NextSync]_vars

\* update_sync_timestamp ran for a target only after that target's sync
\* function had returned 0
StampedAfterSuccess ==
    \A i \in 1..Len(sync.stamped) :
        \E j \in 1..Len(sync.returned) : sync.returned[j] = <<sync.stamped[i], 0>>

\* C28: in sync-state.sh the sync timestamp of a target is written only after
\* that target's sync function returned success, and the final 'Sync
\* completed for target' line is printed, with exit status 0, only if every
\* sync function attempted in the run returned success.
C28_SuccessOnlyAfterSuccess ==
    /\ StampedAfterSuccess
    /\ sync.completed =>
         /\ sync.status = 0
         /\ \A j \in 1..Len(sync.returned) : sync.returned[j][2] = 0

====
